---- MODULE Spec2Model ----
(***************************************************************************)
(* A state-machine model of nanobot-ts: the message bus (bus/queue.ts),    *)
(* the agent turn engine (agent/loop.ts: run, processMessage,              *)
(* processDirect, runAgentLoop), the tool registry                         *)
(* (agent/tools/registry.ts), the session store (session/manager.ts) and   *)
(* the subagent coordinator (agent/subagent.ts) and the job scheduler      *)
(* (cron/service.ts).                                                      *)
(*                                                                         *)
(* SpecBus is the bus used by arbitrary publishers and consumers,          *)
(* SpecAgent the run loop fed by a chat adapter, and SpecLoops the agent   *)
(* used through processDirect together with the subagents it spawns.       *)
(* SpecRun is the run loop with stop() under fair scheduling; SpecSpawn,   *)
(* SpecSubFail and SpecIsolated are the spawned subagents under fair       *)
(* scheduling, with raising tools, and asked for the agent's own tools.    *)
(* SpecCron is the scheduler with its public methods, its timer and its    *)
(* job callbacks in any interleaving.                                      *)
(*                                                                         *)
(* Strings that the code splits or joins at ':' (chat ids, session keys)   *)
(* are sequences of their ':'-separated parts.  The JavaScript value null  *)
(* of a string-or-null field is the reserved string Null.                  *)
(***************************************************************************)
EXTENDS Integers, Sequences, FiniteSets, TLC

(* ------------------------------ bounds -------------------------------- *)
\* messages published by SpecBus
MaxMsgs == 3
\* consume calls made by SpecBus (call 0 is the agent run loop's)
MaxCalls == 3

\* inbound messages published by the chat adapters
MaxInbound == 2
\* AgentLoop.maxIterations as passed to the constructor (its default is 20)
maxIterations == 2
\* tool calls in one LLM response
MaxToolCalls == 2
\* tool calls the LLM requests from the main engine in one run
MaxTc == 2
\* subagents spawned in one run
MaxSpawn == 1
\* calls of processDirect in one run
MaxDirect == 1

\* calls of the scheduler's start, stop, addJob, removeJob and enableJob
MaxOps == 3
\* the last time of the scheduler's clock (which starts at 0)
MaxTime == 1

\* const maxIterations = 15 of SubagentManager.runSubagent
subMaxIterations == 15

QNames == {"inbound", "outbound"}
CallIds == 0..MaxCalls

VARIABLES
  queue,      \* AsyncQueue.queue of each bus queue: the buffered items
  waiters,    \* AsyncQueue.waiters of each bus queue: the calls suspended on it
  calls,      \* per consume call: its promise, its settled flag and its timer
  delivered,  \* history: the (call, item) pairs in the order promises resolved
  published,  \* history: the items put on each queue, in order
  nextCall,   \* the next unused consume call of SpecBus
  running,    \* AgentLoop._running
  pc,         \* where AgentLoop.run is: idle, loop, consume, llm, tool, stopped
  turn,       \* the locals of the turn in progress (processMessage, runAgentLoop)
  sessions,   \* SessionManager.cache: session key -> Session.history
  saves,      \* history: the calls of SessionManager.save, key and length
  view,       \* the last call of Session.getHistory: arguments and result
  toolCtx,    \* the context set on the message and spawn tools
  nextTc,     \* the next tool-call id the LLM hands out
  engineOut,  \* history: what AgentLoop.run published, per inbound message
  done,       \* history: the completed turns
  failures,   \* history: the inbound messages whose processing threw
  toolLog,    \* history: what each executed tool call's tool did
  subs,       \* per subagent task: the locals of its runSubagent call
  runningTasks, \* SubagentManager.runningTasks: the task ids in the map
  direct,     \* the locals of the processDirect call in progress
  dpc,        \* where the processDirect call in progress is: idle, llm, tool
  directOut,  \* history: what each processDirect call returned or threw
  cronRunning, \* CronService._running
  now,        \* nowMs(): the clock of the scheduler
  jobs,       \* the CronJob objects, by id
  store,      \* CronService.store.jobs: the ids of the jobs, in order
  timers,     \* the pending timers setTimeout created: handle and fire time
  timerHandle, \* CronService.timerHandle: a handle, or 0 for null
  ticks,      \* per onTimer call in progress: dueJobs from the job it awaits
  cronOps,    \* the number of calls of the scheduler's public methods so far
  dispatch,   \* ChannelManager.dispatchOutbound: where it is, and its signal
  sends       \* history: what the dispatcher did with each message it took

busVars == <<queue, waiters, calls, delivered, published>>

subVars == <<subs, runningTasks>>

directVars == <<direct, dpc, directOut>>

cronVars ==
  <<cronRunning, now, jobs, store, timers, timerHandle, ticks, cronOps>>

agentVars0 ==
  <<running, pc, turn, sessions, saves, view, toolCtx, nextTc, engineOut,
    done, failures,
    toolLog, subs, runningTasks, direct, dpc, directOut>>

dispatchVars == <<dispatch, sends>>

agentVars == <<agentVars0, cronVars, dispatchVars>>

vars ==
  <<queue, waiters, calls, delivered, published, nextCall,
    running, pc, turn, sessions, saves, view, toolCtx, nextTc, engineOut,
    done, failures,
    toolLog, subs, runningTasks, direct, dpc, directOut,
    cronRunning, now, jobs, store, timers, timerHandle, ticks, cronOps,
    dispatch, sends>>

(* --------------------------- bus/queue.ts ----------------------------- *)

\* The bus as one value, so that a handler that publishes several times is
\* still one step.
Bus ==
  [queue |-> queue, waiters |-> waiters, calls |-> calls,
   delivered |-> delivered, published |-> published]

SetBus(b) ==
  /\ queue' = b.queue
  /\ waiters' = b.waiters
  /\ calls' = b.calls
  /\ delivered' = b.delivered
  /\ published' = b.published

NoCall ==
  [q |-> "inbound", timed |-> FALSE, status |-> "unused", got |-> <<>>,
   settled |-> FALSE, timer |-> FALSE, waited |-> FALSE, pubAtEnd |-> 0]

\* A consume call as it is issued on queue q.  waited and pubAtEnd are
\* history: whether the call registered a waiter, and how many items had
\* been published on q when its promise settled.
NewCall(q, timed) ==
  [q |-> q, timed |-> timed, status |-> "pending", got |-> <<>>,
   settled |-> FALSE, timer |-> FALSE, waited |-> FALSE, pubAtEnd |-> 0]

\* resolve(value) of call c's promise; a promise settles once.
Resolve(b, q, c, item) ==
  IF b.calls[c].status = "pending"
  THEN [b EXCEPT !.calls[c].status = "resolved",
                 !.calls[c].got = <<item>>,
                 !.calls[c].pubAtEnd = Len(b.published[q]),
                 !.delivered[q] = Append(@, [call |-> c, item |-> item])]
  ELSE b

\* reject(new Error("timeout")) of call c's promise; a promise settles once.
Reject(b, q, c) ==
  IF b.calls[c].status = "pending"
  THEN [b EXCEPT !.calls[c].status = "rejected",
                 !.calls[c].pubAtEnd = Len(b.published[q])]
  ELSE b

\* The waiter closure of call c invoked with an item: the plain resolve of
\* get(), or the guarded waiter of getWithTimeout().
WaiterCall(b, q, c, item) ==
  IF b.calls[c].timed
  THEN IF b.calls[c].settled
       THEN [b EXCEPT !.queue[q] = <<item>> \o @]
       ELSE Resolve([b EXCEPT !.calls[c].settled = TRUE,
                              !.calls[c].timer = FALSE], q, c, item)
  ELSE Resolve(b, q, c, item)

\* put served last-in-first-out: waiters.pop() instead of waiters.shift().
PutLifo(b, q, item) ==
  LET b1 == [b EXCEPT !.published[q] = Append(@, item)]
      n == Len(b.waiters[q])
  IN IF n > 0
     THEN WaiterCall([b1 EXCEPT !.waiters[q] = SubSeq(@, 1, n - 1)],
                     q, b.waiters[q][n], item)
     ELSE [b1 EXCEPT !.queue[q] = Append(@, item)]

\* AsyncQueue.put
Put(b, q, item) ==
  LET b1 == [b EXCEPT !.published[q] = Append(@, item)]
  IN IF b.waiters[q] # <<>>
     THEN WaiterCall([b1 EXCEPT !.waiters[q] = Tail(@)],
                     q, Head(b.waiters[q]), item)
     ELSE [b1 EXCEPT !.queue[q] = Append(@, item)]

\* AsyncQueue.get, as call c
Get(b, q, c) ==
  LET b1 == [b EXCEPT !.calls[c] = NewCall(q, FALSE)]
  IN IF b.queue[q] # <<>>
     THEN Resolve([b1 EXCEPT !.queue[q] = Tail(@)], q, c, Head(b.queue[q]))
     ELSE [b1 EXCEPT !.waiters[q] = Append(@, c), !.calls[c].waited = TRUE]

\* A getWithTimeout that takes the newest buffered item: queue.pop() instead
\* of queue.shift().
GetWithTimeoutPop(b, q, c) ==
  LET b1 == [b EXCEPT !.calls[c] = NewCall(q, TRUE)]
      n == Len(b.queue[q])
  IN IF n > 0
     THEN Resolve([b1 EXCEPT !.queue[q] = SubSeq(@, 1, n - 1)], q, c,
                  b.queue[q][n])
     ELSE [b1 EXCEPT !.waiters[q] = Append(@, c), !.calls[c].waited = TRUE,
                     !.calls[c].timer = TRUE]

\* A getWithTimeout whose timer is never started: the call waits until an
\* item is put.
GetWithTimeoutNoTimer(b, q, c) ==
  LET b1 == [b EXCEPT !.calls[c] = NewCall(q, TRUE)]
  IN IF b.queue[q] # <<>>
     THEN Resolve([b1 EXCEPT !.queue[q] = Tail(@)], q, c, Head(b.queue[q]))
     ELSE [b1 EXCEPT !.waiters[q] = Append(@, c), !.calls[c].waited = TRUE]

\* AsyncQueue.getWithTimeout, as call c: the synchronous part, which takes a
\* buffered item or registers the waiter and starts the timer.
GetWithTimeout(b, q, c) ==
  LET b1 == [b EXCEPT !.calls[c] = NewCall(q, TRUE)]
  IN IF b.queue[q] # <<>>
     THEN Resolve([b1 EXCEPT !.queue[q] = Tail(@)], q, c, Head(b.queue[q]))
     ELSE [b1 EXCEPT !.waiters[q] = Append(@, c), !.calls[c].waited = TRUE,
                     !.calls[c].timer = TRUE]

\* s without the first occurrence of c: indexOf followed by splice(idx, 1).
RECURSIVE RemoveFirst(_, _)
RemoveFirst(s, c) ==
  IF s = <<>> THEN <<>>
  ELSE IF Head(s) = c THEN Tail(s)
  ELSE <<Head(s)>> \o RemoveFirst(Tail(s), c)

\* A timer that only rejects, as Promise.race-style withTimeout does: the
\* waiter stays registered and unmarked.
OnTimeoutRejectOnly(b, q, c) ==
  Reject([b EXCEPT !.calls[c].timer = FALSE], q, c)

\* A timer that drops the oldest waiter (waiters.shift()) instead of its own.
OnTimeoutShift(b, q, c) ==
  IF b.calls[c].settled
  THEN [b EXCEPT !.calls[c].timer = FALSE]
  ELSE Reject([b EXCEPT !.calls[c].timer = FALSE,
                        !.calls[c].settled = TRUE,
                        !.waiters[q] = IF @ = <<>> THEN @ ELSE Tail(@)], q, c)

\* The timer callback of getWithTimeout.
OnTimeout(b, q, c) ==
  IF b.calls[c].settled
  THEN [b EXCEPT !.calls[c].timer = FALSE]
  ELSE Reject([b EXCEPT !.calls[c].timer = FALSE,
                        !.calls[c].settled = TRUE,
                        !.waiters[q] = RemoveFirst(@, c)], q, c)

(* --------------------------- SpecBus actions -------------------------- *)

Published == Len(published["inbound"]) + Len(published["outbound"])

\* MessageBus.publishInbound / publishOutbound
Publish(q) ==
  /\ Published < MaxMsgs
  /\ SetBus(Put(Bus, q, [id |-> Published + 1]))
  /\ UNCHANGED <<nextCall, agentVars>>

\* MessageBus.consumeInbound / consumeOutbound
Consume(q) ==
  /\ nextCall <= MaxCalls
  /\ SetBus(Get(Bus, q, nextCall))
  /\ nextCall' = nextCall + 1
  /\ UNCHANGED agentVars

\* MessageBus.consumeInboundTimeout / consumeOutboundTimeout
ConsumeTimeout(q) ==
  /\ nextCall <= MaxCalls
  /\ SetBus(GetWithTimeout(Bus, q, nextCall))
  /\ nextCall' = nextCall + 1
  /\ UNCHANGED agentVars

\* The timer of a timed consume fires.
TimerFire(c) ==
  /\ calls[c].timer
  /\ SetBus(OnTimeout(Bus, calls[c].q, c))
  /\ UNCHANGED <<nextCall, agentVars>>

NextBus ==
  \/ \E q \in QNames : Publish(q)
  \/ \E q \in QNames : Consume(q)
  \/ \E q \in QNames : ConsumeTimeout(q)
  \/ \E c \in CallIds \ {0} : TimerFire(c)

(* ------------------- strings, messages, sessions ---------------------- *)

\* The JavaScript null of a string-or-null field (LLMResponse.content).
Null == "<null>"

\* The fixed fallback answer of runAgentLoop.
FallbackText == "I've completed processing but have no response to give."

\* ContextBuilder.buildSystemPrompt: assembled outside the engine.
SystemPrompt == "<system prompt>"

\* The default maxMessages of Session.getHistory.
DefaultMaxMessages == 200

\* A string written as its ':'-separated parts, joined.
RECURSIVE Join(_)
Join(parts) ==
  IF parts = <<>> THEN ""
  ELSE IF Len(parts) = 1 THEN parts[1]
  ELSE parts[1] \o ":" \o Join(Tail(parts))

\* createInboundMessage; id stands for the message's timestamp and identity.
InboundMessage(id, channel, senderId, chatId, content) ==
  [id |-> id, channel |-> channel, senderId |-> senderId, chatId |-> chatId,
   content |-> content]

\* createOutboundMessage
OutboundMessage(channel, chatId, content) ==
  [channel |-> channel, chatId |-> chatId, content |-> content]

\* The while loop of Session.getHistory: from the 0-based index start, walk
\* forward to a 'user' message.
RECURSIVE TrimStart(_, _)
TrimStart(history, start) ==
  IF start < Len(history) /\ history[start + 1].role # "user"
  THEN TrimStart(history, start + 1)
  ELSE start

\* A getHistory that cuts at the trim point without walking forward.
GetHistoryNoWalk(history, maxMessages) ==
  IF Len(history) <= maxMessages THEN history
  ELSE SubSeq(history, Len(history) - maxMessages + 1, Len(history))

\* Session.getHistory(maxMessages)
GetHistory(history, maxMessages) ==
  IF Len(history) <= maxMessages THEN history
  ELSE SubSeq(history, TrimStart(history, Len(history) - maxMessages) + 1,
              Len(history))

\* No call of getHistory has been observed.
NoView == [key |-> "", max |-> 0, ret |-> <<>>]

\* Array.prototype.slice(from) with a 0-based from
Slice(s, from) == SubSeq(s, from + 1, Len(s))

\* An addTurnMessages that replaces the history by the turn's messages.
AddTurnMessagesReplaces(history, messages) ==
  SelectSeq(messages, LAMBDA m : m.role # "system")

\* Session.addTurnMessages
AddTurnMessages(history, messages) ==
  history \o SelectSeq(messages, LAMBDA m : m.role # "system")

\* SessionManager.getOrCreate on the cache; no session file is on disk.
GetOrCreate(cache, key) ==
  IF key \in DOMAIN cache THEN cache ELSE cache @@ (key :> <<>>)

\* ContextBuilder.buildMessages: the system prompt, the history copied as
\* {role, content}, and the current user message.
BuildMessages(history, currentMessage) ==
  <<[role |-> "system", content |-> SystemPrompt]>>
  \o [i \in 1..Len(history) |->
        [role |-> history[i].role, content |-> history[i].content]]
  \o <<[role |-> "user", content |-> currentMessage]>>

\* ContextBuilder.addToolResult
AddToolResult(messages, toolCallId, toolName, result) ==
  Append(messages, [role |-> "tool", tool_call_id |-> toolCallId,
                    name |-> toolName, content |-> result])

\* ContextBuilder.addAssistantMessage with toolCalls given
AddAssistantMessage(messages, content, toolCalls) ==
  Append(messages, [role |-> "assistant",
                    content |-> IF content = Null THEN "" ELSE content,
                    tool_calls |-> toolCalls])

\* toolCallDicts of runAgentLoop: the raw tool-call records of a response.
ToolCallDicts(toolCalls) ==
  [j \in 1..Len(toolCalls) |->
     [id |-> toolCalls[j].id, type |-> "function", name |-> toolCalls[j].name]]

(* ----------------------- agent/tools/registry.ts ---------------------- *)

\* The tools AgentLoop.registerDefaultTools registers.
AgentRegistry ==
  {"read_file", "write_file", "edit_file", "list_dir", "exec", "web_search",
   "web_fetch", "message", "spawn"}

\* What Tool.execute of a registered tool can do: return a string or throw.
ToolOutcomes ==
  {[threw |-> FALSE, value |-> "tool output"],
   [threw |-> TRUE, value |-> "boom"]}

\* execute without the try/catch: the tool's exception escapes.
ExecuteNoCatch(registry, name, outcome) ==
  IF name \notin registry
  THEN [threw |-> FALSE, value |-> "Error: Unknown tool '" \o name \o "'"]
  ELSE outcome

\* ToolRegistry.execute, given what the tool's own execute did.
Execute(registry, name, outcome) ==
  IF name \notin registry
  THEN [threw |-> FALSE, value |-> "Error: Unknown tool '" \o name \o "'"]
  ELSE IF outcome.threw
  THEN [threw |-> FALSE,
        value |-> "Error executing " \o name \o ": " \o outcome.value]
  ELSE [threw |-> FALSE, value |-> outcome.value]

\* MessageTool.execute with only content given: the synchronous part, which
\* publishes to the tool's default target.
MessageToolExecute(b, ctx) ==
  IF ctx.channel = "" \/ ctx.chatId = <<>>
  THEN [bus |-> b, pre |-> "Error: No target channel/chat specified"]
  ELSE [bus |-> Put(b, "outbound",
                    OutboundMessage(ctx.channel, ctx.chatId, "note")),
        pre |-> "Message sent to " \o ctx.channel \o ":" \o Join(ctx.chatId)]

(* -------------------------- agent/subagent.ts ------------------------- *)

TaskIds == 1..MaxSpawn

\* The coordinator as one value.
Mgr == [subs |-> subs, runningTasks |-> runningTasks]

SetMgr(m) ==
  /\ subs' = m.subs
  /\ runningTasks' = m.runningTasks

\* A task id not handed out yet.  The messages array of runSubagent is
\* local to the call and is read by the LLM only; it is not kept.
NoTask ==
  [status |-> "unused", i |-> 0, pending |-> <<>>, llmCalls |-> 0,
   origin |-> [channel |-> "", chatId |-> <<>>]]

\* A subagent registry with the tools of the agent's own registry.
SubRegistryOfAgent == AgentRegistry

\* The registry runSubagent builds: no message tool, no spawn tool.
SubRegistry ==
  {"read_file", "write_file", "list_dir", "exec", "web_search", "web_fetch"}

SubFallbackText == "Task completed but no final response was generated."

\* The test of both tool-calling for loops let through one more time.
ForContinuesOnceMore(i, cap) == i < cap

\* for (let i = 0; i < cap; i++): after iteration i, whether the loop goes
\* on to another iteration.
ForContinues(i, cap) == i + 1 < cap

\* A spawn that returns after the first LLM call of the subagent returned
\* a tool call.
SpawnAwaitsFirstCall(mgr, origin) ==
  LET id == CHOOSE t \in TaskIds :
              /\ mgr.subs[t].status = "unused"
              /\ \A u \in TaskIds : mgr.subs[u].status = "unused" => t <= u
  IN [mgr |-> [subs |-> [mgr.subs EXCEPT
                           ![id] = [status |-> "tool", i |-> 0,
                                    pending |-> <<"exec">>, llmCalls |-> 1,
                                    origin |-> origin]],
               runningTasks |-> mgr.runningTasks \cup {id}],
      ack |-> "Subagent [job] started (id: " \o ToString(id)
              \o "). I'll notify you when it completes."]

\* A spawn that does not register the task it starts.
SpawnUntracked(mgr, origin) ==
  LET id == CHOOSE t \in TaskIds :
              /\ mgr.subs[t].status = "unused"
              /\ \A u \in TaskIds : mgr.subs[u].status = "unused" => t <= u
  IN [mgr |-> [subs |-> [mgr.subs EXCEPT
                           ![id] = [status |-> "llm", i |-> 0,
                                    pending |-> <<>>, llmCalls |-> 1,
                                    origin |-> origin]],
               runningTasks |-> mgr.runningTasks],
      ack |-> "Subagent [job] started (id: " \o ToString(id)
              \o "). I'll notify you when it completes."]

\* SubagentManager.runningCount
RunningCount(mgr) == Cardinality(mgr.runningTasks)

\* SubagentManager.spawn, with runSubagent run up to its first LLM call.
Spawn(mgr, origin) ==
  LET id == CHOOSE t \in TaskIds :
              /\ mgr.subs[t].status = "unused"
              /\ \A u \in TaskIds : mgr.subs[u].status = "unused" => t <= u
  IN [mgr |-> [subs |-> [mgr.subs EXCEPT
                           ![id] = [status |-> "llm", i |-> 0,
                                    pending |-> <<>>, llmCalls |-> 1,
                                    origin |-> origin]],
               runningTasks |-> mgr.runningTasks \cup {id}],
      ack |-> "Subagent [job] started (id: " \o ToString(id)
              \o "). I'll notify you when it completes."]

\* An announceResult that publishes for a successful run only.
AnnounceOnlyOk(b, origin, result, status) ==
  IF status = "ok"
  THEN Put(b, "inbound",
           InboundMessage(Len(b.published["inbound"]) + 1, "system",
                          "subagent", <<origin.channel>> \o origin.chatId,
                          "[Subagent 'job' completed successfully] Result: "
                          \o result))
  ELSE b

\* SubagentManager.announceResult
AnnounceResult(b, origin, result, status) ==
  Put(b, "inbound",
      InboundMessage(Len(b.published["inbound"]) + 1, "system", "subagent",
                     <<origin.channel>> \o origin.chatId,
                     "[Subagent 'job' "
                     \o (IF status = "ok" THEN "completed successfully"
                         ELSE "failed")
                     \o "] Result: " \o result))

\* The synchronous part of ToolRegistry.execute: the call of tool.execute.
StartTool(b, mgr, ctx, tc) ==
  IF tc.name = "message"
  THEN LET r == MessageToolExecute(b, ctx.message)
       IN [bus |-> r.bus, mgr |-> mgr, pre |-> r.pre]
  ELSE IF tc.name = "spawn"
  THEN LET r == Spawn(mgr, ctx.spawn)
       IN [bus |-> b, mgr |-> r.mgr, pre |-> r.ack]
  ELSE [bus |-> b, mgr |-> mgr, pre |-> ""]

(* --------------------------- agent/loop.ts ---------------------------- *)

NoTurn == [active |-> FALSE]

\* The tool calls of a response taken last first.
ToolCallOrderReversed(toolCalls) ==
  [j \in 1..Len(toolCalls) |-> toolCalls[Len(toolCalls) + 1 - j]]

\* for (const tc of response.toolCalls): the order of execution.
ToolCallOrder(toolCalls) == toolCalls

\* The end of runAgentLoop that forgets to persist the fallback.
FinishLoopNoPush(messages, finalContent) ==
  [messages |-> messages,
   final |-> IF finalContent = Null THEN FallbackText ELSE finalContent]

\* The end of runAgentLoop (after the for loop): the fallback for a null
\* finalContent and the push of the final text when it is not the last
\* message already.
FinishLoop(messages, finalContent) ==
  LET fc == IF finalContent = Null THEN FallbackText ELSE finalContent
      last == messages[Len(messages)]
  IN [messages |-> IF last.role # "assistant" \/ last.content # fc
                   THEN Append(messages, [role |-> "assistant", content |-> fc])
                   ELSE messages,
      final |-> fc]

\* The origin a message is processed for: processMessage for a chat message,
\* processSystemMessage (chatId.split(":", 2)) for a system message.
Origin(msg) ==
  IF msg.channel = "system"
  THEN IF Len(msg.chatId) > 1
       THEN [channel |-> msg.chatId[1], chatId |-> <<msg.chatId[2]>>]
       ELSE [channel |-> "cli", chatId |-> msg.chatId]
  ELSE [channel |-> msg.channel, chatId |-> msg.chatId]

\* `${channel}:${chatId}`
SessionKey(channel, chatId) == Join(<<channel>> \o chatId)

\* AgentLoop.updateToolContexts
UpdateToolContexts(channel, chatId) ==
  [message |-> [channel |-> channel, chatId |-> chatId],
   spawn |-> [channel |-> channel, chatId |-> chatId]]

\* The apology AgentLoop.run publishes when processMessage throws: addressed
\* with the channel and chatId fields of the inbound message.
Apology(msg, err) ==
  OutboundMessage(msg.channel, msg.chatId,
                  "Sorry, I encountered an error: " \o err)

\* AgentLoop.run is called.
RunStart ==
  /\ pc = "idle"
  /\ running' = TRUE
  /\ pc' = "loop"
  /\ UNCHANGED <<busVars, nextCall, turn, sessions, saves, view, toolCtx,
                 nextTc,
                 engineOut, done, failures, toolLog, subVars, directVars>>
  /\ UNCHANGED <<cronVars, dispatchVars>>

\* AgentLoop.stop
Stop ==
  /\ running
  /\ running' = FALSE
  /\ UNCHANGED <<busVars, nextCall, pc, turn, sessions, saves, view,
                 toolCtx, nextTc,
                 engineOut, done, failures, toolLog, subVars, directVars>>
  /\ UNCHANGED <<cronVars, dispatchVars>>

\* The while test of run and the call of consumeInboundTimeout(1000), which
\* is consume call 0.
LoopTest ==
  /\ pc = "loop"
  /\ IF running
     THEN /\ SetBus(GetWithTimeout(Bus, "inbound", 0))
          /\ pc' = "consume"
     ELSE /\ pc' = "stopped"
          /\ UNCHANGED busVars
  /\ UNCHANGED <<nextCall, running, turn, sessions, saves, view, toolCtx,
                 nextTc,
                 engineOut, done, failures, toolLog, subVars, directVars>>
  /\ UNCHANGED <<cronVars, dispatchVars>>

\* The timed consume of run rejected: catch, continue.  The settled promise
\* of call 0 is dropped.
ConsumeTimedOut ==
  /\ pc = "consume"
  /\ calls[0].status = "rejected"
  /\ calls' = [calls EXCEPT ![0] = NoCall]
  /\ pc' = "loop"
  /\ UNCHANGED <<queue, waiters, delivered, published, nextCall, running,
                 turn, sessions, saves, view, toolCtx, nextTc, engineOut,
                 done, failures,
                 toolLog, subVars, directVars>>
  /\ UNCHANGED <<cronVars, dispatchVars>>

\* A chat adapter (or, standing for a subagent, the coordinator) publishes
\* message m on the inbound queue.
AdapterPublish(m) ==
  /\ Len(published["inbound"]) < MaxInbound
  /\ m.id = Len(published["inbound"]) + 1
  /\ SetBus(Put(Bus, "inbound", m))
  /\ UNCHANGED <<nextCall, agentVars>>

\* Locals of a turn whose slice starts right after the system prompt.
NewTurnSavesContext(msg, key, channel, chatId, history) ==
  [active |-> TRUE, msg |-> msg, key |-> key,
   channel |-> channel, chatId |-> chatId,
   messages |-> BuildMessages(history, msg.content),
   newMsgStart |-> 1,
   i |-> 0, pending |-> <<>>, started |-> <<>>,
   pre |-> "", llmCalls |-> 1, toolResponses |-> 0]

\* The locals of a turn as processMessage, processSystemMessage and
\* processDirect set them up before runAgentLoop: msg is the inbound message
\* (for processDirect, its arguments), history what getHistory returned.
NewTurn(msg, key, channel, chatId, history) ==
  [active |-> TRUE, msg |-> msg, key |-> key,
   channel |-> channel, chatId |-> chatId,
   messages |-> BuildMessages(history, msg.content),
   newMsgStart |-> 1 + Len(history),
   i |-> 0, pending |-> <<>>, started |-> <<>>,
   pre |-> "", llmCalls |-> 1, toolResponses |-> 0]

\* runAgentLoop of the turn with locals tr when provider.chat returns resp
\* (hasToolCalls is toolCalls.length > 0): the assistant message is appended
\* and the first tool call starts, or the loop ends with the final content.
OnLLMResponse(tr, b, mgr, ctx, firstId, resp) ==
  IF Len(resp.toolCalls) > 0
  THEN LET tcs == [j \in 1..Len(resp.toolCalls) |->
                     [id |-> firstId + j - 1, name |-> resp.toolCalls[j]]]
           todo == ToolCallOrder(tcs)
           st == StartTool(b, mgr, ctx, Head(todo))
       IN [kind |-> "tool", bus |-> st.bus, mgr |-> st.mgr,
           turn |-> [tr EXCEPT
                       !.messages = AddAssistantMessage(@, resp.content,
                                                        ToolCallDicts(tcs)),
                       !.pending = todo,
                       !.started = <<Head(todo).id>>,
                       !.pre = st.pre,
                       !.toolResponses = @ + 1]]
  ELSE [kind |-> "final", bus |-> b, mgr |-> mgr, turn |-> tr,
        fin |-> FinishLoop(Append(tr.messages,
                                  [role |-> "assistant",
                                   content |-> IF resp.content = Null
                                               THEN ""
                                               ELSE resp.content]),
                           resp.content)]

\* What the tool of the tool call in progress of tr did, given outcome o: the
\* message and spawn tools return what their synchronous part prepared.
Given(tr, o) ==
  IF Head(tr.pending).name \in {"message", "spawn"}
  THEN [threw |-> FALSE, value |-> tr.pre]
  ELSE o

\* runAgentLoop of the turn with locals tr when the tool call in progress
\* returns (or throws) with outcome o: its result is appended, and the next
\* tool call of the response starts, or the next LLM call is issued, or the
\* loop ends at the iteration cap.
OnToolResult(tr, b, mgr, ctx, o) ==
  LET tc == Head(tr.pending)
      rest == Tail(tr.pending)
      r == Execute(AgentRegistry, tc.name, Given(tr, o))
      msgs == AddToolResult(tr.messages, tc.id, tc.name, r.value)
  IN IF r.threw
     THEN [kind |-> "threw", bus |-> b, mgr |-> mgr, turn |-> tr,
           err |-> r.value]
     ELSE IF rest # <<>>
     THEN LET st == StartTool(b, mgr, ctx, Head(rest))
          IN [kind |-> "tool", bus |-> st.bus, mgr |-> st.mgr,
              turn |-> [tr EXCEPT !.messages = msgs,
                                  !.pending = rest,
                                  !.started = Append(@, Head(rest).id),
                                  !.pre = st.pre]]
     ELSE IF ForContinues(tr.i, maxIterations)
     THEN [kind |-> "llm", bus |-> b, mgr |-> mgr,
           turn |-> [tr EXCEPT !.messages = msgs,
                               !.pending = <<>>,
                               !.started = <<>>,
                               !.i = @ + 1,
                               !.llmCalls = @ + 1]]
     ELSE [kind |-> "final", bus |-> b, mgr |-> mgr, turn |-> tr,
           fin |-> FinishLoop(msgs, Null)]

\* The entry of toolLog for the tool call in progress of tr.
LogEntry(tr, o) ==
  [id |-> Head(tr.pending).id, name |-> Head(tr.pending).name,
   threw |-> Given(tr, o).threw, value |-> Given(tr, o).value,
   for |-> tr.msg.id]

\* A turn end that writes back the history the turn started with, followed
\* by the turn's messages.
SaveTurnFromSnapshot(tr, fin) ==
  [sessions EXCEPT
     ![tr.key] = AddTurnMessages(SubSeq(@, 1, tr.newMsgStart - 1),
                                 Slice(fin.messages, tr.newMsgStart))]

\* session.addTurnMessages(messages.slice(newMsgStart)) and save, on the
\* session of tr.
SaveTurn(tr, fin) ==
  [sessions EXCEPT
     ![tr.key] = AddTurnMessages(@, Slice(fin.messages, tr.newMsgStart))]

\* The entry of saves for this.sessions.save(session) at the end of the
\* turn tr: the session and the number of messages written to its file.
SaveEntry(tr, fin) ==
  [key |-> tr.key, len |-> Len(SaveTurn(tr, fin)[tr.key])]

\* The entry of done for the completed turn tr: seen is the number of
\* history messages the turn started with.
DoneEntry(tr, fin) ==
  [id |-> tr.msg.id, key |-> tr.key, seen |-> tr.newMsgStart - 1,
   from |-> Len(sessions[tr.key]), to |-> Len(SaveTurn(tr, fin)[tr.key]),
   final |-> fin.final, llmCalls |-> tr.llmCalls,
   toolResponses |-> tr.toolResponses]

\* The answers the model draws: the LLM hands out at most MaxTc tool calls
\* and asks for no more subagents than there are task ids left.
CanAnswer(resp) ==
  /\ Len(resp.toolCalls) <= MaxTc + 1 - nextTc
  /\ Cardinality({j \in 1..Len(resp.toolCalls) : resp.toolCalls[j] = "spawn"})
       <= Cardinality({t \in TaskIds : subs[t].status = "unused"})

\* The outcomes the model draws: one outcome for a tool call whose result
\* does not depend on it.
OutcomeFits(tr, o) ==
  (\/ Head(tr.pending).name \in {"message", "spawn"}
   \/ Head(tr.pending).name \notin AgentRegistry)
    => o = [threw |-> FALSE, value |-> "tool output"]

\* The timed consume of run resolved with a message: processMessage (or
\* processSystemMessage) up to the first LLM call of runAgentLoop.
TurnStart ==
  /\ pc = "consume"
  /\ calls[0].status = "resolved"
  /\ LET msg == calls[0].got[1]
         o == Origin(msg)
         key == SessionKey(o.channel, o.chatId)
         cache == GetOrCreate(sessions, key)
         history == GetHistory(cache[key], DefaultMaxMessages)
     IN /\ sessions' = cache
        /\ UNCHANGED <<saves, view>>
        /\ toolCtx' = UpdateToolContexts(o.channel, o.chatId)
        /\ turn' = NewTurn(msg, key, o.channel, o.chatId, history)
        /\ pc' = "llm"
  /\ calls' = [calls EXCEPT ![0] = NoCall]
  /\ UNCHANGED <<queue, waiters, delivered, published, nextCall, running,
                 nextTc, engineOut, done, failures, toolLog, subVars,
                 directVars>>
  /\ UNCHANGED <<cronVars, dispatchVars>>

\* The tail of processMessage and what run does with its result: the new
\* messages are added to the session, the session is saved, and the final
\* text is published to the origin.
Complete(b, fin) ==
  LET out == OutboundMessage(turn.channel, turn.chatId, fin.final)
  IN /\ sessions' = SaveTurn(turn, fin)
     /\ saves' = Append(saves, SaveEntry(turn, fin))
     /\ UNCHANGED view
     /\ SetBus(Put(b, "outbound", out))
     /\ engineOut' = Append(engineOut, [for |-> turn.msg.id,
                                        kind |-> "answer", msg |-> out])
     /\ done' = Append(done, DoneEntry(turn, fin))
     /\ turn' = NoTurn
     /\ pc' = "loop"
     /\ UNCHANGED failures

\* A catch of run that logs the error and publishes nothing.
FailNoApology(b, err) ==
  /\ SetBus(b)
  /\ failures' = Append(failures, [msg |-> turn.msg, err |-> err,
                                   at |-> pc])
  /\ turn' = NoTurn
  /\ pc' = "loop"
  /\ UNCHANGED <<sessions, saves, view, done, engineOut>>

\* An exception leaves processMessage: the catch of run publishes the
\* apology and the loop goes on.
Fail(b, err) ==
  LET out == Apology(turn.msg, err)
  IN /\ SetBus(Put(b, "outbound", out))
     /\ engineOut' = Append(engineOut, [for |-> turn.msg.id,
                                        kind |-> "apology", msg |-> out])
     /\ failures' = Append(failures, [msg |-> turn.msg, err |-> err,
                                      at |-> pc])
     /\ turn' = NoTurn
     /\ pc' = "loop"
     /\ UNCHANGED <<sessions, saves, view, done>>

\* What the LLM may answer: no tool calls and a content that is null, empty
\* or a text; or up to n tool calls with names among names.
FinalResponses ==
  {[content |-> c, toolCalls |-> <<>>] : c \in {Null, "", "Hello"}}

ToolResponses(names, n) ==
  {[content |-> Null, toolCalls |-> s] :
     s \in UNION {[1..k -> names] : k \in 1..n}}

\* provider.chat returns resp to the bus-driven turn.
LLMReturn(resp) ==
  /\ pc = "llm"
  /\ CanAnswer(resp)
  /\ LET r == OnLLMResponse(turn, Bus, Mgr, toolCtx, nextTc, resp)
     IN IF r.kind = "tool"
        THEN /\ turn' = r.turn
             /\ SetBus(r.bus)
             /\ SetMgr(r.mgr)
             /\ nextTc' = nextTc + Len(resp.toolCalls)
             /\ pc' = "tool"
             /\ UNCHANGED <<sessions, saves, view, engineOut, done, failures>>
        ELSE /\ Complete(r.bus, r.fin)
             /\ UNCHANGED <<nextTc, subVars>>
  /\ UNCHANGED <<nextCall, running, toolCtx, toolLog, directVars>>
  /\ UNCHANGED <<cronVars, dispatchVars>>

\* provider.chat throws in the bus-driven turn.
LLMThrow ==
  /\ pc = "llm"
  /\ Fail(Bus, "LLM unavailable")
  /\ UNCHANGED <<nextCall, running, toolCtx, nextTc, toolLog, subVars,
                 directVars>>
  /\ UNCHANGED <<cronVars, dispatchVars>>

\* The tool call in progress of the bus-driven turn returns (or throws)
\* with outcome o.
ToolReturn(o) ==
  /\ pc = "tool"
  /\ OutcomeFits(turn, o)
  /\ toolLog' = Append(toolLog, LogEntry(turn, o))
  /\ LET r == OnToolResult(turn, Bus, Mgr, toolCtx, o)
     IN IF r.kind = "threw"
        THEN Fail(r.bus, r.err) /\ UNCHANGED subVars
        ELSE IF r.kind = "final"
        THEN Complete(r.bus, r.fin) /\ UNCHANGED subVars
        ELSE /\ turn' = r.turn
             /\ SetBus(r.bus)
             /\ SetMgr(r.mgr)
             /\ pc' = r.kind
             /\ UNCHANGED <<sessions, saves, view, engineOut, done, failures>>
  /\ UNCHANGED <<nextCall, running, toolCtx, nextTc, directVars>>
  /\ UNCHANGED <<cronVars, dispatchVars>>

(* ------------------------ AgentLoop.processDirect --------------------- *)

\* processDirect(content) is called with its default session key, channel
\* and chat id, and runs up to the first LLM call of runAgentLoop.
DirectStart ==
  /\ dpc = "idle"
  /\ Len(directOut) < MaxDirect
  /\ LET msg == InboundMessage(0 - (Len(directOut) + 1), "cli", "user",
                               <<"direct">>, "hi")
         key == SessionKey("cli", <<"direct">>)
         cache == GetOrCreate(sessions, key)
         history == GetHistory(cache[key], DefaultMaxMessages)
     IN /\ sessions' = cache
        /\ UNCHANGED <<saves, view>>
        /\ toolCtx' = UpdateToolContexts("cli", <<"direct">>)
        /\ direct' = NewTurn(msg, key, "cli", <<"direct">>, history)
        /\ dpc' = "llm"
  /\ UNCHANGED <<busVars, nextCall, running, pc, turn, nextTc, engineOut,
                 done, failures, toolLog, subVars, directOut>>
  /\ UNCHANGED <<cronVars, dispatchVars>>

\* The tail of processDirect: the turn is saved and the final text returned.
DirectComplete(fin) ==
  /\ sessions' = SaveTurn(direct, fin)
  /\ saves' = Append(saves, SaveEntry(direct, fin))
  /\ UNCHANGED view
  /\ done' = Append(done, DoneEntry(direct, fin))
  /\ directOut' = Append(directOut, [id |-> direct.msg.id, threw |-> FALSE,
                                     value |-> fin.final])
  /\ direct' = NoTurn
  /\ dpc' = "idle"

\* A processDirect that catches the exception and returns an apology.
DirectFailSwallowed(err) ==
  /\ directOut' = Append(directOut, [id |-> direct.msg.id, threw |-> FALSE,
                                     value |-> "Sorry, I encountered an error: "
                                               \o err])
  /\ direct' = NoTurn
  /\ dpc' = "idle"
  /\ UNCHANGED <<sessions, saves, view, done>>

\* An exception leaves processDirect: it is rethrown to the caller.
DirectFail(err) ==
  /\ directOut' = Append(directOut, [id |-> direct.msg.id, threw |-> TRUE,
                                     value |-> err])
  /\ direct' = NoTurn
  /\ dpc' = "idle"
  /\ UNCHANGED <<sessions, saves, view, done>>

\* provider.chat returns resp to the direct turn.
DirectLLMReturn(resp) ==
  /\ dpc = "llm"
  /\ CanAnswer(resp)
  /\ LET r == OnLLMResponse(direct, Bus, Mgr, toolCtx, nextTc, resp)
     IN IF r.kind = "tool"
        THEN /\ direct' = r.turn
             /\ SetBus(r.bus)
             /\ SetMgr(r.mgr)
             /\ nextTc' = nextTc + Len(resp.toolCalls)
             /\ dpc' = "tool"
             /\ UNCHANGED <<sessions, saves, view, done, directOut>>
        ELSE /\ DirectComplete(r.fin)
             /\ UNCHANGED <<busVars, nextTc, subVars>>
  /\ UNCHANGED <<nextCall, running, pc, turn, toolCtx, engineOut, failures,
                 toolLog>>
  /\ UNCHANGED <<cronVars, dispatchVars>>

\* provider.chat throws in the direct turn.
DirectLLMThrow ==
  /\ dpc = "llm"
  /\ DirectFail("LLM unavailable")
  /\ UNCHANGED <<busVars, nextCall, running, pc, turn, toolCtx, nextTc,
                 engineOut, failures, toolLog, subVars>>
  /\ UNCHANGED <<cronVars, dispatchVars>>

\* The tool call in progress of the direct turn returns (or throws) with
\* outcome o.
DirectToolReturn(o) ==
  /\ dpc = "tool"
  /\ OutcomeFits(direct, o)
  /\ toolLog' = Append(toolLog, LogEntry(direct, o))
  /\ LET r == OnToolResult(direct, Bus, Mgr, toolCtx, o)
     IN IF r.kind = "threw"
        THEN DirectFail(r.err) /\ UNCHANGED <<busVars, subVars>>
        ELSE IF r.kind = "final"
        THEN DirectComplete(r.fin) /\ UNCHANGED <<busVars, subVars>>
        ELSE /\ direct' = r.turn
             /\ SetBus(r.bus)
             /\ SetMgr(r.mgr)
             /\ dpc' = r.kind
             /\ UNCHANGED <<sessions, saves, view, done, directOut>>
  /\ UNCHANGED <<nextCall, running, pc, turn, toolCtx, nextTc, engineOut,
                 failures>>
  /\ UNCHANGED <<cronVars, dispatchVars>>

\* The inbound messages of SpecAgent: chat messages of one chat and, once
\* a chat message has been published, subagent announcements for that chat
\* as SubagentManager.announceResult builds them.
AgentInbound ==
  {InboundMessage(n, "telegram", "user", <<"42">>, "hi") : n \in 1..MaxInbound}
  \cup {InboundMessage(n, "system", "subagent", <<"telegram", "42">>,
                       "[Subagent 'job' completed successfully]") :
          n \in 2..MaxInbound}

\* The tool names the LLM asks for in SpecAgent: a tool that may throw, the
\* message tool, and a name that is not registered.
AgentToolNames == {"exec", "message", "no_such_tool"}

\* The state after construction, with the sessions of cache in the session
\* manager's cache and the jobs js, listed in st, in the scheduler's store.
InitState(cache, js, st) ==
  /\ queue = [q \in QNames |-> <<>>]
  /\ waiters = [q \in QNames |-> <<>>]
  /\ calls = [c \in CallIds |-> NoCall]
  /\ delivered = [q \in QNames |-> <<>>]
  /\ published = [q \in QNames |-> <<>>]
  /\ nextCall = 1
  /\ running = FALSE
  /\ pc = "idle"
  /\ turn = NoTurn
  /\ sessions = cache
  /\ saves = <<>>
  /\ view = NoView
  /\ toolCtx = [message |-> [channel |-> "", chatId |-> <<>>],
                spawn |-> [channel |-> "cli", chatId |-> <<"direct">>]]
  /\ nextTc = 1
  /\ engineOut = <<>>
  /\ done = <<>>
  /\ failures = <<>>
  /\ toolLog = <<>>
  /\ subs = [t \in TaskIds |-> NoTask]
  /\ runningTasks = {}
  /\ direct = NoTurn
  /\ dpc = "idle"
  /\ directOut = <<>>
  /\ cronRunning = FALSE
  /\ now = 0
  /\ jobs = js
  /\ store = st
  /\ timers = {}
  /\ timerHandle = 0
  /\ ticks = [k \in 1..MaxOps |-> [due |-> <<>>, startMs |-> 0 - 1]]
  /\ cronOps = 0
  /\ dispatch = [pc |-> "idle", aborted |-> FALSE]
  /\ sends = <<>>

\* The state after construction with the sessions of cache in the session
\* manager's cache and no job in the scheduler's store.
InitWith(cache) ==
  InitState(cache, [j \in 1..MaxOps |-> [enabled |-> FALSE, free |-> TRUE]],
            <<>>)

\* The state after construction: no session is cached.
Init == InitWith(<<>>)

SpecBus == Init /\ [][NextBus]_vars

NextAgent ==
  \/ RunStart
  \/ LoopTest
  \/ TimerFire(0)
  \/ ConsumeTimedOut
  \/ \E m \in AgentInbound : AdapterPublish(m)
  \/ TurnStart
  \/ \E resp \in FinalResponses \cup ToolResponses(AgentToolNames, MaxToolCalls) :
       LLMReturn(resp)
  \/ LLMThrow
  \/ \E o \in ToolOutcomes : ToolReturn(o)

SpecAgent == Init /\ [][NextAgent]_vars

(* ------------------- the subagent loop (runSubagent) ------------------ *)

engineVars ==
  <<running, pc, turn, sessions, saves, view, toolCtx, nextTc, engineOut,
    done, failures,
    toolLog, direct, dpc, directOut>>

\* What the LLM may answer a subagent: a final content that is null or a
\* text, or one tool call, of a registered tool or of one the subagent's
\* registry does not have.
SubResponses ==
  {[content |-> c, toolCalls |-> <<>>] : c \in {Null, "done"}}
  \cup ToolResponses({"exec", "spawn"}, 1)

\* What the LLM may answer a direct turn in SpecLoops: a final text, a
\* null content, or the spawn of a subagent.
LoopResponses ==
  {[content |-> c, toolCalls |-> <<>>] : c \in {Null, "Hello"}}
  \cup ToolResponses({"spawn"}, 1)

\* The end of runSubagent's try or catch: the announcement is published.
SubAnnounce(t, result, status) ==
  /\ SetBus(AnnounceResult(Bus, subs[t].origin, result, status))
  /\ subs' = [subs EXCEPT ![t].status = "announced", ![t].pending = <<>>]

\* provider.chat returns resp to subagent t.
SubLLMReturn(t, resp) ==
  /\ subs[t].status = "llm"
  /\ IF Len(resp.toolCalls) > 0
     THEN /\ subs' = [subs EXCEPT ![t].status = "tool",
                                  ![t].pending = resp.toolCalls]
          /\ UNCHANGED busVars
     ELSE SubAnnounce(t, IF resp.content = Null THEN SubFallbackText
                         ELSE resp.content, "ok")
  /\ UNCHANGED <<nextCall, engineVars, runningTasks>>
  /\ UNCHANGED <<cronVars, dispatchVars>>

\* provider.chat throws in subagent t: the catch announces the error.
SubLLMThrow(t) ==
  /\ subs[t].status = "llm"
  /\ SubAnnounce(t, "Error: LLM unavailable", "error")
  /\ UNCHANGED <<nextCall, engineVars, runningTasks>>
  /\ UNCHANGED <<cronVars, dispatchVars>>

\* The tool call in progress of subagent t returns with outcome o.
SubToolReturn(t, o) ==
  /\ subs[t].status = "tool"
  /\ LET name == Head(subs[t].pending)
         rest == Tail(subs[t].pending)
         r == Execute(SubRegistry, name, o)
     IN /\ name \notin SubRegistry => o = [threw |-> FALSE, value |-> "tool output"]
        /\ IF r.threw
           THEN SubAnnounce(t, "Error: " \o r.value, "error")
           ELSE IF rest # <<>>
           THEN /\ subs' = [subs EXCEPT ![t].pending = rest]
                /\ UNCHANGED busVars
           ELSE IF ForContinues(subs[t].i, subMaxIterations)
           THEN /\ subs' = [subs EXCEPT ![t].status = "llm",
                                        ![t].pending = <<>>,
                                        ![t].i = @ + 1,
                                        ![t].llmCalls = @ + 1]
                /\ UNCHANGED busVars
           ELSE SubAnnounce(t, SubFallbackText, "ok")
  /\ UNCHANGED <<nextCall, engineVars, runningTasks>>
  /\ UNCHANGED <<cronVars, dispatchVars>>

\* The .finally callback of spawn, run when runSubagent's promise settles.
SubFinally(t) ==
  /\ subs[t].status = "announced"
  /\ subs' = [subs EXCEPT ![t].status = "done"]
  /\ runningTasks' = runningTasks \ {t}
  /\ UNCHANGED <<busVars, nextCall, engineVars>>
  /\ UNCHANGED <<cronVars, dispatchVars>>

\* The LLM or the tool the direct turn is waiting for returns.
DirectLLMStep ==
  \/ \E resp \in LoopResponses : DirectLLMReturn(resp)
  \/ DirectLLMThrow

DirectToolStep == \E o \in ToolOutcomes : DirectToolReturn(o)

SubLLMStep(t) ==
  \/ \E resp \in SubResponses : SubLLMReturn(t, resp)
  \/ SubLLMThrow(t)

SubToolStep(t) == \E o \in ToolOutcomes : SubToolReturn(t, o)

\* The agent used through processDirect only (run is never called), with
\* the subagents its turns spawn.
NextLoops ==
  \/ DirectStart
  \/ DirectLLMStep
  \/ DirectToolStep
  \/ \E t \in TaskIds : SubLLMStep(t)
  \/ \E t \in TaskIds : SubToolStep(t)
  \/ \E t \in TaskIds : SubFinally(t)

SpecLoops == Init /\ [][NextLoops]_vars

(* ------------- spawned subagents, under fair scheduling --------------- *)

\* What the LLM may answer a direct turn in SpecSpawn: a final text or the
\* spawn of a subagent.
SpawnResponses ==
  {[content |-> "Hello", toolCalls |-> <<>>]} \cup ToolResponses({"spawn"}, 1)

\* What the LLM may answer a subagent in SpecSpawn: a final content that is
\* null or a text, or the call of a tool.
SpawnSubResponses ==
  {[content |-> c, toolCalls |-> <<>>] : c \in {Null, "done"}}
  \cup ToolResponses({"exec"}, 1)

\* The LLM call or the tool execution subagent t is waiting for settles.
SubStep(t) ==
  \/ \E resp \in SpawnSubResponses : SubLLMReturn(t, resp)
  \/ SubLLMThrow(t)
  \/ SubToolStep(t)

NextSpawn ==
  \/ DirectStart
  \/ \E resp \in SpawnResponses : DirectLLMReturn(resp)
  \/ DirectToolReturn([threw |-> FALSE, value |-> "tool output"])
  \/ \E t \in TaskIds : SubStep(t)
  \/ \E t \in TaskIds : SubFinally(t)

\* Every LLM call and tool execution of a subagent settles.
SpecSpawn ==
  Init /\ [][NextSpawn]_vars /\ \A t \in TaskIds : WF_vars(SubStep(t))

(* ------------- subagents whose tools raise ---------------------------- *)

\* The subagents of SpecSpawn when the LLM always answers and every tool
\* execution of a subagent raises an exception.
NextSubFail ==
  \/ DirectStart
  \/ \E resp \in SpawnResponses : DirectLLMReturn(resp)
  \/ DirectToolReturn([threw |-> FALSE, value |-> "tool output"])
  \/ \E t \in TaskIds : \E resp \in SpawnSubResponses : SubLLMReturn(t, resp)
  \/ \E t \in TaskIds : SubToolReturn(t, [threw |-> TRUE, value |-> "boom"])
  \/ \E t \in TaskIds : SubFinally(t)

SpecSubFail == Init /\ [][NextSubFail]_vars

(* ------------- subagents asking for the agent's tools ----------------- *)

\* What the LLM may answer a subagent in SpecIsolated: a final text, or
\* calls of the message tool and the spawn tool.
IsolatedResponses ==
  {[content |-> "done", toolCalls |-> <<>>]}
  \cup ToolResponses({"message", "spawn"}, 2)

\* The subagents of SpecSpawn when the LLM asks them to send messages and
\* to spawn subagents.
NextIsolated ==
  \/ DirectStart
  \/ \E resp \in SpawnResponses : DirectLLMReturn(resp)
  \/ DirectToolReturn([threw |-> FALSE, value |-> "tool output"])
  \/ \E t \in TaskIds : \E resp \in IsolatedResponses : SubLLMReturn(t, resp)
  \/ \E t \in TaskIds : SubLLMThrow(t)
  \/ \E t \in TaskIds : SubToolStep(t)
  \/ \E t \in TaskIds : SubFinally(t)

SpecIsolated == Init /\ [][NextIsolated]_vars

(* ------------- the run loop with stop, under fair scheduling ---------- *)

\* What the LLM may answer in SpecRun: a final text, or a call of the
\* message tool.
RunResponses ==
  {[content |-> "Hello", toolCalls |-> <<>>]} \cup ToolResponses({"message"}, 1)

RunLLMStep ==
  \/ \E resp \in RunResponses : LLMReturn(resp)
  \/ LLMThrow

RunToolStep == \E o \in ToolOutcomes : ToolReturn(o)

\* A continuation of run that is ready runs; the LLM call or tool execution
\* run is waiting for returns.
EngineStep ==
  \/ LoopTest
  \/ ConsumeTimedOut
  \/ TurnStart
  \/ RunLLMStep
  \/ RunToolStep

NextRun ==
  \/ RunStart
  \/ Stop
  \/ TimerFire(0)
  \/ \E m \in AgentInbound : AdapterPublish(m)
  \/ EngineStep

SpecRun == Init /\ [][NextRun]_vars /\ WF_vars(EngineStep)

\* The run loop as in SpecRun, where moreover a timer that is pending
\* fires: the 1000 ms of the timed consume pass.
SpecRunTimed ==
  Init /\ [][NextRun]_vars /\ WF_vars(EngineStep) /\ WF_vars(TimerFire(0))

(* ------------- announcements on their way back to the chat ------------ *)

\* The chats of SpecRoundTrip: a chat id without ':' and one with.
RoundTripChats == {<<"42">>, <<"42", "7">>}

\* Chat messages of those chats.
RoundTripInbound ==
  {InboundMessage(n, "telegram", "user", c, "hi") :
     n \in 1..MaxInbound, c \in RoundTripChats}

\* The run loop with the spawn tool and the subagents it starts: the only
\* system messages are the announcements of the subagents.
NextRoundTrip ==
  \/ RunStart
  \/ LoopTest
  \/ TimerFire(0)
  \/ ConsumeTimedOut
  \/ \E m \in RoundTripInbound : AdapterPublish(m)
  \/ TurnStart
  \/ \E resp \in SpawnResponses : LLMReturn(resp)
  \/ ToolReturn([threw |-> FALSE, value |-> "tool output"])
  \/ \E t \in TaskIds :
       SubLLMReturn(t, [content |-> "done", toolCalls |-> <<>>])
  \/ \E t \in TaskIds : SubFinally(t)

SpecRoundTrip == Init /\ [][NextRoundTrip]_vars

(* ------------------------- cron/service.ts ---------------------------- *)

\* The JavaScript value null (or undefined) of a millisecond field.
NullMs == 0 - 1

\* JavaScript truthiness of a millisecond field: neither null nor 0.
Truthy(ms) == ms # NullMs /\ ms # 0

\* A job is created by a call of addJob, and an onTimer call overlaps the
\* ones in progress only after a public method re-armed the timer.
JobIds == 1..MaxOps
TickIds == 1..MaxOps

\* The one cron expression of the model that parses: it matches the odd
\* times.  Any other expression makes parseExpression throw.
OddTimes == "1-59/2 * * * *"

\* parseExpression(expr).next().getTime() at time currentMs: the first
\* matching time after currentMs.
CronNext(expr, currentMs) == 2 * ((currentMs + 1) \div 2) + 1

\* The schedules the callers pass to addJob.
Schedules ==
  {[kind |-> "at", atMs |-> 1, everyMs |-> NullMs, expr |-> Null],
   [kind |-> "every", atMs |-> NullMs, everyMs |-> 1, expr |-> Null],
   [kind |-> "every", atMs |-> NullMs, everyMs |-> 0, expr |-> Null],
   [kind |-> "cron", atMs |-> NullMs, everyMs |-> NullMs, expr |-> OddTimes],
   [kind |-> "cron", atMs |-> NullMs, everyMs |-> NullMs, expr |-> "bad"]}

\* A computeNextRun whose every schedule forgets the current time.
ComputeNextRunFromZero(schedule, currentMs) ==
  IF schedule.kind = "at"
  THEN IF Truthy(schedule.atMs) /\ schedule.atMs > currentMs
       THEN schedule.atMs ELSE NullMs
  ELSE IF schedule.kind = "every"
  THEN IF ~Truthy(schedule.everyMs) \/ schedule.everyMs <= 0
       THEN NullMs ELSE schedule.everyMs
  ELSE IF schedule.kind = "cron" /\ schedule.expr # Null /\ schedule.expr # ""
  THEN IF schedule.expr = OddTimes
       THEN CronNext(schedule.expr, currentMs) ELSE NullMs
  ELSE NullMs

\* A computeNextRun whose one-shot schedule does not look at the current
\* time.
ComputeNextRunAtAlways(schedule, currentMs) ==
  IF schedule.kind = "at"
  THEN IF Truthy(schedule.atMs) THEN schedule.atMs ELSE NullMs
  ELSE IF schedule.kind = "every"
  THEN IF ~Truthy(schedule.everyMs) \/ schedule.everyMs <= 0
       THEN NullMs ELSE currentMs + schedule.everyMs
  ELSE IF schedule.kind = "cron" /\ schedule.expr # Null /\ schedule.expr # ""
  THEN IF schedule.expr = OddTimes
       THEN CronNext(schedule.expr, currentMs) ELSE NullMs
  ELSE NullMs

\* computeNextRun(schedule, currentMs)
ComputeNextRun(schedule, currentMs) ==
  IF schedule.kind = "at"
  THEN IF Truthy(schedule.atMs) /\ schedule.atMs > currentMs
       THEN schedule.atMs ELSE NullMs
  ELSE IF schedule.kind = "every"
  THEN IF ~Truthy(schedule.everyMs) \/ schedule.everyMs <= 0
       THEN NullMs ELSE currentMs + schedule.everyMs
  ELSE IF schedule.kind = "cron" /\ schedule.expr # Null /\ schedule.expr # ""
  THEN IF schedule.expr = OddTimes
       THEN CronNext(schedule.expr, currentMs) ELSE NullMs
  ELSE NullMs

\* A job object that does not exist (no reference to it is left).
NoJob == [enabled |-> FALSE, free |-> TRUE]

\* An onTimer call that is not in progress.
NoTick == [due |-> <<>>, startMs |-> NullMs]

\* The scheduler as one value, so that a handler that changes the store and
\* re-arms the timer is still one step.  The store file, the payload and the
\* createdAtMs and updatedAtMs stamps of a job are written only; they are
\* left out.
Cron ==
  [running |-> cronRunning, jobs |-> jobs, store |-> store,
   timers |-> timers, timerHandle |-> timerHandle]

SetCron(c) ==
  /\ cronRunning' = c.running
  /\ jobs' = c.jobs
  /\ store' = c.store
  /\ timers' = c.timers
  /\ timerHandle' = c.timerHandle

InStore(c) == {c.store[i] : i \in 1..Len(c.store)}

\* store.jobs.filter((j) => j.id !== jobId)
Without(st, jobId) == SelectSeq(st, LAMBDA j : j # jobId)

MinOf(S) == CHOOSE m \in S : \A n \in S : m <= n

\* CronService.recomputeNextRuns at time t
RecomputeNextRuns(c, t) ==
  [c EXCEPT !.jobs =
     [j \in JobIds |->
        IF j \in InStore(c) /\ c.jobs[j].enabled
        THEN [c.jobs[j] EXCEPT
                !.nextRunAtMs = ComputeNextRun(c.jobs[j].schedule, t)]
        ELSE c.jobs[j]]]

\* CronService.getNextWakeMs
GetNextWakeMs(c) ==
  LET times == {c.jobs[j].nextRunAtMs :
                  j \in {i \in InStore(c) :
                           /\ c.jobs[i].enabled
                           /\ Truthy(c.jobs[i].nextRunAtMs)}}
  IN IF times # {} THEN MinOf(times) ELSE NullMs

\* The handle setTimeout returns: one no pending timer has.
NewHandle(c) ==
  MinOf({h \in 1..(Cardinality(c.timers) + 1) :
           \A x \in c.timers : x.h # h})

\* An armTimer that does not clear the timer it holds.
ArmTimerNoClear(c, t) ==
  LET nextWake == GetNextWakeMs(c)
  IN IF ~Truthy(nextWake) \/ ~c.running
     THEN [c EXCEPT !.timerHandle = 0]
     ELSE LET h == NewHandle(c)
              delayMs == IF nextWake - t > 0 THEN nextWake - t ELSE 0
          IN [c EXCEPT !.timers = @ \cup {[h |-> h, at |-> t + delayMs]},
                       !.timerHandle = h]

\* An armTimer that leaves things as they are when it holds a handle.
ArmTimerKeepsHandle(c, t) ==
  IF c.timerHandle # 0 THEN c
  ELSE LET nextWake == GetNextWakeMs(c)
       IN IF ~Truthy(nextWake) \/ ~c.running
          THEN c
          ELSE LET h == NewHandle(c)
                   delayMs == IF nextWake - t > 0 THEN nextWake - t ELSE 0
               IN [c EXCEPT !.timers = @ \cup {[h |-> h, at |-> t + delayMs]},
                            !.timerHandle = h]

\* An armTimer that does not look at _running.
ArmTimerWhenStopped(c, t) ==
  LET cleared == IF c.timerHandle # 0
                 THEN [c EXCEPT !.timers = {x \in @ : x.h # c.timerHandle},
                                !.timerHandle = 0]
                 ELSE c
      nextWake == GetNextWakeMs(cleared)
  IN IF ~Truthy(nextWake)
     THEN cleared
     ELSE LET h == NewHandle(cleared)
              delayMs == IF nextWake - t > 0 THEN nextWake - t ELSE 0
          IN [cleared EXCEPT
                !.timers = @ \cup {[h |-> h, at |-> t + delayMs]},
                !.timerHandle = h]

\* CronService.armTimer at time t.  A pending timer is a handle with the
\* time it is set to fire at; timerHandle 0 is null.
ArmTimer(c, t) ==
  LET cleared == IF c.timerHandle # 0
                 THEN [c EXCEPT !.timers = {x \in @ : x.h # c.timerHandle},
                                !.timerHandle = 0]
                 ELSE c
      nextWake == GetNextWakeMs(cleared)
  IN IF ~Truthy(nextWake) \/ ~cleared.running
     THEN cleared
     ELSE LET h == NewHandle(cleared)
              delayMs == IF nextWake - t > 0 THEN nextWake - t ELSE 0
          IN [cleared EXCEPT
                !.timers = @ \cup {[h |-> h, at |-> t + delayMs]},
                !.timerHandle = h]

\* The filter of onTimer at time t: the due jobs, in store order.
DueJobs(c, t) ==
  SelectSeq(c.store,
            LAMBDA j : /\ c.jobs[j].enabled
                       /\ Truthy(c.jobs[j].nextRunAtMs)
                       /\ t >= c.jobs[j].nextRunAtMs)

\* What the onJob callback can do: return or throw.
JobOutcomes ==
  {[threw |-> FALSE, value |-> "response"],
   [threw |-> TRUE, value |-> "boom"]}

\* An executeJob without the try/catch: the callback's exception escapes
\* before anything is recorded.
ExecuteJobEndNoCatch(c, j, o, startMs, t) ==
  IF o.threw
  THEN [cron |-> c, threw |-> TRUE]
  ELSE LET ran == [c.jobs[j] EXCEPT !.lastStatus = "ok",
                                    !.lastError = Null,
                                    !.lastRunAtMs = startMs]
       IN [cron |->
             IF ran.schedule.kind = "at"
             THEN IF ran.deleteAfterRun
                  THEN [c EXCEPT !.jobs[j] = ran, !.store = Without(@, j)]
                  ELSE [c EXCEPT !.jobs[j] = [ran EXCEPT !.enabled = FALSE,
                                                         !.nextRunAtMs = NullMs]]
             ELSE [c EXCEPT !.jobs[j] =
                     [ran EXCEPT !.nextRunAtMs = ComputeNextRun(ran.schedule, t)]],
           threw |-> FALSE]

\* CronService.executeJob from the return (or throw) of the callback, at
\* time t, of the job started at startMs.
ExecuteJobEnd(c, j, o, startMs, t) ==
  LET ran == [c.jobs[j] EXCEPT
                !.lastStatus = IF o.threw THEN "error" ELSE "ok",
                !.lastError = IF o.threw THEN o.value ELSE Null,
                !.lastRunAtMs = startMs]
  IN [cron |->
        IF ran.schedule.kind = "at"
        THEN IF ran.deleteAfterRun
             THEN [c EXCEPT !.jobs[j] = ran, !.store = Without(@, j)]
             ELSE [c EXCEPT !.jobs[j] = [ran EXCEPT !.enabled = FALSE,
                                                    !.nextRunAtMs = NullMs]]
        ELSE [c EXCEPT !.jobs[j] =
                [ran EXCEPT !.nextRunAtMs = ComputeNextRun(ran.schedule, t)]],
      threw |-> FALSE]

\* The job objects of js that are still referenced, by the store st or by
\* the dueJobs of an onTimer call of tk; the others are gone.
Collect(js, st, tk) ==
  [j \in JobIds |->
     IF \/ \E i \in 1..Len(st) : st[i] = j
        \/ \E k \in TickIds : \E i \in 1..Len(tk[k].due) : tk[k].due[i] = j
     THEN js[j] ELSE NoJob]

\* Time passes.
Advance ==
  /\ now < MaxTime
  /\ now' = now + 1
  /\ UNCHANGED <<cronRunning, jobs, store, timers, timerHandle, ticks, cronOps>>
  /\ UNCHANGED <<busVars, nextCall, agentVars0, dispatchVars>>

\* CronService.start
CronStart ==
  /\ cronOps < MaxOps
  /\ cronOps' = cronOps + 1
  /\ ~cronRunning
  /\ SetCron(ArmTimer(RecomputeNextRuns([Cron EXCEPT !.running = TRUE], now),
                      now))
  /\ UNCHANGED <<now, ticks>>
  /\ UNCHANGED <<busVars, nextCall, agentVars0, dispatchVars>>

\* CronService.stop
CronStop ==
  /\ cronOps < MaxOps
  /\ cronOps' = cronOps + 1
  /\ cronRunning
  /\ cronRunning' = FALSE
  /\ timers' = IF timerHandle # 0 THEN {x \in timers : x.h # timerHandle}
               ELSE timers
  /\ timerHandle' = 0
  /\ UNCHANGED <<now, jobs, store, ticks>>
  /\ UNCHANGED <<busVars, nextCall, agentVars0, dispatchVars>>

\* What the callers pass to addJob: a schedule and deleteAfterRun, which
\* only a one-shot job reads.
AddParams ==
  {[schedule |-> s, deleteAfterRun |-> d] :
     s \in Schedules, d \in BOOLEAN} \ 
  {[schedule |-> s, deleteAfterRun |-> TRUE] :
     s \in {x \in Schedules : x.kind # "at"}}

\* CronService.addJob({schedule, deleteAfterRun}); the id is a fresh one.
CronAddJob(schedule, deleteAfterRun) ==
  /\ cronOps < MaxOps
  /\ cronOps' = cronOps + 1
  /\ LET id == cronOps + 1
         job == [enabled |-> TRUE, schedule |-> schedule,
                 deleteAfterRun |-> deleteAfterRun,
                 nextRunAtMs |-> ComputeNextRun(schedule, now),
                 lastRunAtMs |-> NullMs, lastStatus |-> Null,
                 lastError |-> Null]
     IN SetCron(ArmTimer([Cron EXCEPT !.jobs[id] = job,
                                      !.store = Append(@, id)], now))
  /\ UNCHANGED <<now, ticks>>
  /\ UNCHANGED <<busVars, nextCall, agentVars0, dispatchVars>>

\* An enableJob that leaves nextRunAtMs as it is when it disables a job.
EnableJobKeepsNextRun(c, jobId, enabled, t) ==
  IF jobId \in InStore(c)
  THEN LET job == [c.jobs[jobId] EXCEPT
                     !.enabled = enabled,
                     !.nextRunAtMs =
                        IF enabled
                        THEN ComputeNextRun(c.jobs[jobId].schedule, t)
                        ELSE @]
       IN [cron |-> ArmTimer([c EXCEPT !.jobs[jobId] = job], t),
           ret |-> <<jobId>>]
  ELSE [cron |-> c, ret |-> <<>>]

\* CronService.removeJob(jobId) at time t: the scheduler it leaves and the
\* value it returns.
RemoveJob(c, jobId, t) ==
  LET filtered == [c EXCEPT !.store = Without(@, jobId)]
      removed == Len(filtered.store) < Len(c.store)
  IN [cron |-> IF removed THEN ArmTimer(filtered, t) ELSE filtered,
      ret |-> removed]

\* CronService.enableJob(jobId, enabled) at time t: the scheduler it leaves
\* and the job it returns (<<>> is null).
EnableJob(c, jobId, enabled, t) ==
  IF jobId \in InStore(c)
  THEN LET job == [c.jobs[jobId] EXCEPT
                     !.enabled = enabled,
                     !.nextRunAtMs =
                        IF enabled
                        THEN ComputeNextRun(c.jobs[jobId].schedule, t)
                        ELSE NullMs]
       IN [cron |-> ArmTimer([c EXCEPT !.jobs[jobId] = job], t),
           ret |-> <<jobId>>]
  ELSE [cron |-> c, ret |-> <<>>]

\* A call of removeJob(jobId); the job object goes with the last reference
\* to it.
CronRemoveJob(jobId) ==
  /\ cronOps < MaxOps
  /\ cronOps' = cronOps + 1
  /\ LET c == RemoveJob(Cron, jobId, now).cron
     IN SetCron([c EXCEPT !.jobs = Collect(c.jobs, c.store, ticks)])
  /\ UNCHANGED <<now, ticks>>
  /\ UNCHANGED <<busVars, nextCall, agentVars0, dispatchVars>>

\* A call of enableJob(jobId, enabled)
CronEnableJob(jobId, enabled) ==
  /\ cronOps < MaxOps
  /\ cronOps' = cronOps + 1
  /\ SetCron(EnableJob(Cron, jobId, enabled, now).cron)
  /\ UNCHANGED <<now, ticks>>
  /\ UNCHANGED <<busVars, nextCall, agentVars0, dispatchVars>>

\* A comparator that takes a missing nextRunAtMs for 0.
CompareNullAsZero(a, b) ==
  LET x == IF a = NullMs THEN 0 ELSE a
      y == IF b = NullMs THEN 0 ELSE b
  IN IF x < y THEN 0 - 1 ELSE IF x > y THEN 1 ELSE 0

\* The comparator of listJobs on two nextRunAtMs values, as the sign sort
\* sees: (a ?? Infinity) - (b ?? Infinity), where Infinity - Infinity is
\* NaN, which sort takes for 0.
CompareNextRun(a, b) ==
  IF a = NullMs /\ b = NullMs THEN 0
  ELSE IF a = NullMs THEN 1
  ELSE IF b = NullMs THEN 0 - 1
  ELSE IF a < b THEN 0 - 1
  ELSE IF a > b THEN 1 ELSE 0

\* x put into the sorted sequence of job ids s after every element that
\* does not compare greater than it.
RECURSIVE InsertJob(_, _, _)
InsertJob(s, x, js) ==
  IF s = <<>> THEN <<x>>
  ELSE IF CompareNextRun(js[Head(s)].nextRunAtMs, js[x].nextRunAtMs) <= 0
  THEN <<Head(s)>> \o InsertJob(Tail(s), x, js)
  ELSE <<x>> \o s

\* Array.prototype.sort with the comparator of listJobs: a stable sort.
RECURSIVE SortJobs(_, _)
SortJobs(s, js) ==
  IF s = <<>> THEN <<>>
  ELSE InsertJob(SortJobs(SubSeq(s, 1, Len(s) - 1), js), s[Len(s)], js)

\* CronService.listJobs(includeDisabled): the scheduler it leaves and the
\* jobs it returns.  sort works in place: with includeDisabled it sorts the
\* list of the store itself.
ListJobs(c, includeDisabled) ==
  IF includeDisabled
  THEN LET sorted == SortJobs(c.store, c.jobs)
       IN [cron |-> [c EXCEPT !.store = sorted], ret |-> sorted]
  ELSE [cron |-> c,
        ret |-> SortJobs(SelectSeq(c.store, LAMBDA j : c.jobs[j].enabled),
                         c.jobs)]

\* A call of listJobs(includeDisabled)
CronListJobs(includeDisabled) ==
  /\ cronOps < MaxOps
  /\ cronOps' = cronOps + 1
  /\ SetCron(ListJobs(Cron, includeDisabled).cron)
  /\ UNCHANGED <<now, ticks>>
  /\ UNCHANGED <<busVars, nextCall, agentVars0, dispatchVars>>

\* The handles of timers: a public method or the end of a tick arms one.
Handles == 1..(MaxOps + 1)

\* The pending timer with handle h fires: its callback runs onTimer up to
\* the await of the first due job's callback, or to its end when no job is
\* due.
CronTimerFire(h) ==
  /\ \E x \in timers : x.h = h /\ x.at <= now
  /\ LET c == [Cron EXCEPT !.timers = {x \in @ : x.h # h}]
         dueJobs == DueJobs(c, now)
     IN IF ~c.running
        THEN SetCron(c) /\ UNCHANGED ticks
        ELSE IF dueJobs = <<>>
        THEN SetCron(ArmTimer(c, now)) /\ UNCHANGED ticks
        ELSE /\ \E k \in TickIds : ticks[k] = NoTick
             /\ LET k == MinOf({i \in TickIds : ticks[i] = NoTick})
                IN ticks' = [ticks EXCEPT
                               ![k] = [due |-> dueJobs, startMs |-> now]]
             /\ SetCron(c)
  /\ UNCHANGED <<now, cronOps>>
  /\ UNCHANGED <<busVars, nextCall, agentVars0, dispatchVars>>

\* The callback the onTimer call k awaits returns or throws (o): executeJob
\* finishes, and onTimer starts the next job it collected or, after the
\* last, re-arms the timer and ends.
CallbackReturn(k, o) ==
  /\ ticks[k] # NoTick
  /\ LET j == Head(ticks[k].due)
         rest == Tail(ticks[k].due)
     IN \E r \in {ExecuteJobEnd(Cron, j, o, ticks[k].startMs, now)} :
        \E tk \in {[ticks EXCEPT
                     ![k] = IF r.threw \/ rest = <<>> THEN NoTick
                            ELSE [due |-> rest, startMs |-> now]]} :
        \E c \in {IF r.threw \/ rest # <<>> THEN r.cron
                  ELSE ArmTimer(r.cron, now)} :
          /\ ticks' = tk
          /\ SetCron([c EXCEPT !.jobs = Collect(c.jobs, c.store, tk)])
  /\ UNCHANGED <<now, cronOps>>
  /\ UNCHANGED <<busVars, nextCall, agentVars0, dispatchVars>>

NextCron ==
  \/ Advance
  \/ CronStart
  \/ CronStop
  \/ \E p \in AddParams : CronAddJob(p.schedule, p.deleteAfterRun)
  \/ \E j \in JobIds : CronRemoveJob(j)
  \/ \E j \in JobIds : \E e \in BOOLEAN : CronEnableJob(j, e)
  \/ \E d \in BOOLEAN : CronListJobs(d)
  \/ \E h \in Handles : CronTimerFire(h)
  \/ \E k \in TickIds : \E o \in JobOutcomes : CallbackReturn(k, o)

SpecCron == Init /\ [][NextCron]_vars

(* ------------- the scheduler with a store loaded from its file -------- *)

\* A job as loadStore reads it from a store file that was written when the
\* job had been added and not run.
LoadedJob(schedule) ==
  [enabled |-> TRUE, schedule |-> schedule, deleteAfterRun |-> FALSE,
   nextRunAtMs |-> ComputeNextRun(schedule, 0),
   lastRunAtMs |-> NullMs, lastStatus |-> Null, lastError |-> Null]

\* The schedules of the loaded jobs: recurring and one-shot jobs that are
\* due at the same time.
LoadedSchedules ==
  {s \in Schedules :
     \/ s.kind = "every" /\ s.everyMs = 1
     \/ s.kind = "at"}

\* The store files of SpecCronLoaded: two jobs, with ids 1 and 2.
LoadedStores ==
  {[j \in JobIds |-> IF j = 1 THEN LoadedJob(s1)
                     ELSE IF j = 2 THEN LoadedJob(s2)
                     ELSE NoJob] :
     s1 \in LoadedSchedules, s2 \in LoadedSchedules}

InitCronLoaded == \E js \in LoadedStores : InitState(<<>>, js, <<1, 2>>)

\* The scheduler of the gateway between two runs of the cron tool's add:
\* it is started and stopped, jobs are removed, enabled and disabled, time
\* passes, timers fire and callbacks settle.
NextCronLoaded ==
  \/ Advance
  \/ CronStart
  \/ CronStop
  \/ \E j \in JobIds : CronRemoveJob(j)
  \/ \E j \in JobIds : \E e \in BOOLEAN : CronEnableJob(j, e)
  \/ \E h \in Handles : CronTimerFire(h)
  \/ \E k \in TickIds : \E o \in JobOutcomes : CallbackReturn(k, o)

SpecCronLoaded == InitCronLoaded /\ [][NextCronLoaded]_vars

(* ------------- the scheduler under fair scheduling -------------------- *)

\* The last time of the clock in SpecCronFair: late enough for a job that
\* ran at the first possible time to run a second time.
LiveTime == MaxTime + 1

\* Time passes, up to LiveTime.
LiveAdvance ==
  /\ now < LiveTime
  /\ now' = now + 1
  /\ UNCHANGED <<cronRunning, jobs, store, timers, timerHandle, ticks, cronOps>>
  /\ UNCHANGED <<busVars, nextCall, agentVars0, dispatchVars>>

\* The callback the onTimer call k awaits returns or throws.
CallbackStep(k) == \E o \in JobOutcomes : CallbackReturn(k, o)

\* The schedules of SpecCronFair: a recurring job, a one-shot job, and a
\* job that never gets a next run.
FairSchedules ==
  {s \in Schedules :
     \/ s.kind = "every" /\ s.everyMs = 1
     \/ s.kind = "at"
     \/ s.kind = "cron" /\ s.expr = "bad"}

NextCronFair ==
  \/ LiveAdvance
  \/ CronStart
  \/ CronStop
  \/ \E s \in FairSchedules : CronAddJob(s, FALSE)
  \/ \E j \in JobIds : \E e \in BOOLEAN : CronEnableJob(j, e)
  \/ \E h \in Handles : CronTimerFire(h)
  \/ \E k \in TickIds : CallbackStep(k)

\* What happens without a call from outside: time passes, a pending timer
\* whose time has come fires, a job callback returns or throws.
CronStep ==
  \/ LiveAdvance
  \/ \E h \in Handles : CronTimerFire(h)
  \/ \E k \in TickIds : CallbackStep(k)

\* The scheduler when time passes, timers fire and callbacks settle.
SpecCronFair == Init /\ [][NextCronFair]_vars /\ WF_vars(CronStep)

(* ------------------------ Session.getHistory -------------------------- *)

\* The turns of a stored sample history, and the largest maxMessages
\* getHistory is called with.
MaxStoredTurns == 3
MaxKeep == 6

\* The messages turn n of a session appended: the user message and the
\* final text, with no tool call, one, or two of one response in between.
StoredTurn(n, k) ==
  LET user == [role |-> "user", content |-> "old " \o ToString(n)]
      text == [role |-> "assistant", content |-> "old reply " \o ToString(n)]
      tcs == [j \in 1..k |-> [id |-> 0 - (2 * n + j), name |-> "exec"]]
      call == [role |-> "assistant", content |-> "",
               tool_calls |-> ToolCallDicts(tcs)]
      results == [j \in 1..k |->
                    [role |-> "tool", tool_call_id |-> tcs[j].id,
                     name |-> "exec", content |-> "tool output"]]
  IN IF k = 0 THEN <<user, text>>
     ELSE <<user, call>> \o results \o <<text>>

\* The histories of n turns.
RECURSIVE StoredOf(_)
StoredOf(n) ==
  IF n = 0 THEN {<<>>}
  ELSE {h \o StoredTurn(n, k) : h \in StoredOf(n - 1), k \in 0..2}

\* The histories a session holds after up to MaxStoredTurns turns.
StoredHistories == UNION {StoredOf(n) : n \in 0..MaxStoredTurns}

\* The session a sample history is stored in.
SampleKey == "telegram:42"

InitHistory == \E h \in StoredHistories : InitWith(SampleKey :> h)

\* session.getHistory(max) is called on the session key.
GetHistoryCall(key, max) ==
  /\ key \in DOMAIN sessions
  /\ view' = [key |-> key, max |-> max, ret |-> GetHistory(sessions[key], max)]
  /\ UNCHANGED <<busVars, nextCall, cronVars, dispatchVars>>
  /\ UNCHANGED <<running, pc, turn, sessions, saves, toolCtx, nextTc,
                 engineOut, done, failures, toolLog, subs, runningTasks,
                 direct, dpc, directOut>>

NextHistory == \E max \in 0..MaxKeep : GetHistoryCall(SampleKey, max)

SpecHistory == InitHistory /\ [][NextHistory]_vars

(* ---------------- turns on sessions with a long history --------------- *)

\* The turns that fill a history up to the default limit of getHistory.
FullTurns == DefaultMaxMessages \div 2

\* The history of FullTurns turns on: turns 2.. without a tool call after a
\* first turn with k tool calls.
RECURSIVE PlainTurns(_)
PlainTurns(n) ==
  IF n < 2 THEN <<>> ELSE PlainTurns(n - 1) \o StoredTurn(n, 0)

LongHistory(k) == StoredTurn(1, k) \o PlainTurns(FullTurns)

\* The session of processDirect's default key.
DirectKey == "cli:direct"

\* What the session manager's cache holds when the turns of SpecPersist
\* begin: the sessions of earlier turns, with DefaultMaxMessages messages or
\* with more.
PersistCaches ==
  {(SampleKey :> LongHistory(1)),
   (SampleKey :> LongHistory(0)) @@ (DirectKey :> LongHistory(1))}

InitPersist == \E cache \in PersistCaches : InitWith(cache)

\* What the LLM may answer in SpecPersist: a final text or a call of exec.
PersistResponses ==
  {[content |-> "Hello", toolCalls |-> <<>>]} \cup ToolResponses({"exec"}, 1)

\* The chat messages of SpecPersist.
PersistInbound ==
  {InboundMessage(n, "telegram", "user", <<"42">>, "hi") : n \in 1..MaxInbound}

\* Bus-driven turns and direct calls, completing or failing at an LLM call.
NextPersist ==
  \/ RunStart
  \/ LoopTest
  \/ TimerFire(0)
  \/ ConsumeTimedOut
  \/ \E m \in PersistInbound : AdapterPublish(m)
  \/ TurnStart
  \/ \E resp \in PersistResponses : LLMReturn(resp)
  \/ LLMThrow
  \/ ToolReturn([threw |-> FALSE, value |-> "tool output"])
  \/ DirectStart
  \/ DirectLLMReturn([content |-> "Hello", toolCalls |-> <<>>])
  \/ DirectLLMThrow

SpecPersist == InitPersist /\ [][NextPersist]_vars

(* ------------- direct calls interleaved with the run loop ------------- *)

\* The chat messages of SpecOverlap: one chat of a chat channel, and the
\* chat of the cli channel, whose session key is the default session key
\* of processDirect.
OverlapInbound ==
  {InboundMessage(n, "telegram", "user", <<"42">>, "hi") : n \in 1..MaxInbound}
  \cup {InboundMessage(n, "cli", "user", <<"direct">>, "hi") :
          n \in 1..MaxInbound}

\* What the LLM may answer a turn in SpecOverlap: a final text, or a call
\* of the message tool or of the spawn tool.
OverlapResponses ==
  {[content |-> "Hello", toolCalls |-> <<>>]}
  \cup ToolResponses({"message", "spawn"}, 1)

\* The gateway: the run loop consumes the bus while a cron job, the
\* heartbeat or a gateway call runs processDirect, each suspended at its
\* own LLM calls and tool executions, and the subagents they spawn run to
\* their announcements.
NextOverlap ==
  \/ RunStart
  \/ LoopTest
  \/ TimerFire(0)
  \/ ConsumeTimedOut
  \/ \E m \in OverlapInbound : AdapterPublish(m)
  \/ TurnStart
  \/ \E resp \in OverlapResponses : LLMReturn(resp)
  \/ ToolReturn([threw |-> FALSE, value |-> "tool output"])
  \/ DirectStart
  \/ \E resp \in OverlapResponses : DirectLLMReturn(resp)
  \/ DirectToolReturn([threw |-> FALSE, value |-> "tool output"])
  \/ \E t \in TaskIds :
       SubLLMReturn(t, [content |-> "done", toolCalls |-> <<>>])
  \/ \E t \in TaskIds : SubFinally(t)

SpecOverlap == Init /\ [][NextOverlap]_vars

(* ------------- turns that overlap on one session ---------------------- *)

\* Chat messages of the cli chat, whose session key "cli:direct" is the
\* default session key of processDirect.
SameKeyInbound ==
  {InboundMessage(n, "cli", "user", <<"direct">>, "hi") : n \in 1..MaxInbound}

\* The run loop and processDirect working on the same session, each turn
\* suspended at its LLM calls and tool executions.
NextSameKey ==
  \/ RunStart
  \/ LoopTest
  \/ TimerFire(0)
  \/ ConsumeTimedOut
  \/ \E m \in SameKeyInbound : AdapterPublish(m)
  \/ TurnStart
  \/ \E resp \in PersistResponses : LLMReturn(resp)
  \/ LLMThrow
  \/ ToolReturn([threw |-> FALSE, value |-> "tool output"])
  \/ DirectStart
  \/ \E resp \in PersistResponses : DirectLLMReturn(resp)
  \/ DirectLLMThrow
  \/ DirectToolReturn([threw |-> FALSE, value |-> "tool output"])

SpecSameKey == Init /\ [][NextSameKey]_vars

(* ------------- the gateway's job callback (cron.onJob) ---------------- *)

\* ChannelManager.enabledChannels: the names of the registered channels,
\* which initChannels registers (telegram only).
EnabledChannels == <<"telegram">>

RECURSIVE Distinct(_)
\* The elements of s without repetitions, in the order of their first
\* occurrence (the iteration order of a Set).
Distinct(s) ==
  IF s = <<>> THEN <<>>
  ELSE LET d == Distinct(SubSeq(s, 1, Len(s) - 1))
       IN IF \E i \in 1..Len(d) : d[i] = s[Len(s)]
          THEN d
          ELSE Append(d, s[Len(s)])

\* ChannelManager.getKnownChatIds: the chats of the channel that have sent
\* at least one message.
KnownChatIds(b, channelName) ==
  LET OfChannel(m) == m.channel = channelName
      sent == SelectSeq(b.published["inbound"], OfChannel)
  IN IF \E i \in 1..Len(EnabledChannels) : EnabledChannels[i] = channelName
     THEN Distinct([i \in 1..Len(sent) |-> sent[i].chatId])
     ELSE <<>>

RECURSIVE PublishAll(_, _)
\* bus.publishOutbound for each message of msgs in turn.
PublishAll(b, msgs) ==
  IF msgs = <<>> THEN b
  ELSE PublishAll(Put(b, "outbound", Head(msgs)), Tail(msgs))

RECURSIVE DeliverTo(_, _, _)
\* The delivery loop of cron.onJob over the channels names: the response is
\* published for every known chat of every channel.
DeliverTo(b, names, response) ==
  IF names = <<>> THEN b
  ELSE LET chatIds == KnownChatIds(b, Head(names))
       IN DeliverTo(PublishAll(b, [i \in 1..Len(chatIds) |->
                                     OutboundMessage(Head(names), chatIds[i],
                                                     response)]),
                    Tail(names), response)

\* The tail of cron.onJob after processDirect returned response.
OnJobDeliver(b, job, response) ==
  IF job.payload.deliver
  THEN DeliverTo(b, EnabledChannels, response)
  ELSE b

\* The jobs the callback is called with: a job as CronTool.addJob creates
\* it in a turn of telegram chat 42 (deliver = true, channel and to from the
\* tool's context), and a job that is not delivered.
DeliverJobs ==
  {[id |-> "j1",
    payload |-> [message |-> "hi", deliver |-> d,
                 channel |-> "telegram", to |-> <<"42">>]] : d \in BOOLEAN}

\* The chat messages of SpecDeliver: messages of two telegram chats.
DeliverInbound ==
  {InboundMessage(n, "telegram", "user", <<c>>, "hi") :
     n \in 1..MaxInbound, c \in {"42", "7"}}

\* cron.onJob(job) up to the first LLM call of its processDirect: the job's
\* message is processed in session "cron:<id>" on channel "cron" with the
\* job id as chat id.  job is the callback's parameter, kept with the turn.
OnJobStart(job) ==
  /\ dpc = "idle"
  /\ Len(directOut) < MaxDirect
  /\ LET msg == ("job" :> job)
                @@ InboundMessage(0 - (Len(directOut) + 1), "cron", "user",
                                  <<job.id>>, job.payload.message)
         key == SessionKey("cron", <<job.id>>)
         cache == GetOrCreate(sessions, key)
         history == GetHistory(cache[key], DefaultMaxMessages)
     IN /\ sessions' = cache
        /\ UNCHANGED <<saves, view>>
        /\ toolCtx' = UpdateToolContexts("cron", <<job.id>>)
        /\ direct' = NewTurn(msg, key, "cron", <<job.id>>, history)
        /\ dpc' = "llm"
  /\ UNCHANGED <<busVars, nextCall, running, pc, turn, nextTc, engineOut,
                 done, failures, toolLog, subVars, directOut>>
  /\ UNCHANGED <<cronVars, dispatchVars>>

\* provider.chat returns resp to the job's turn; with a final response
\* processDirect returns and cron.onJob delivers it.
OnJobLLMReturn(resp) ==
  /\ dpc = "llm"
  /\ direct.channel = "cron"
  /\ CanAnswer(resp)
  /\ LET r == OnLLMResponse(direct, Bus, Mgr, toolCtx, nextTc, resp)
     IN IF r.kind = "tool"
        THEN /\ direct' = r.turn
             /\ SetBus(r.bus)
             /\ SetMgr(r.mgr)
             /\ nextTc' = nextTc + Len(resp.toolCalls)
             /\ dpc' = "tool"
             /\ UNCHANGED <<sessions, saves, view, done, directOut>>
        ELSE /\ DirectComplete(r.fin)
             /\ SetBus(OnJobDeliver(Bus, direct.msg.job, r.fin.final))
             /\ UNCHANGED <<nextTc, subVars>>
  /\ UNCHANGED <<nextCall, running, pc, turn, toolCtx, engineOut, failures,
                 toolLog>>
  /\ UNCHANGED <<cronVars, dispatchVars>>

\* The tool call in progress of the job's turn returns (or throws) with
\* outcome o; when that ends the turn, cron.onJob delivers the response, and
\* an exception leaves cron.onJob before the delivery.
OnJobToolReturn(o) ==
  /\ dpc = "tool"
  /\ direct.channel = "cron"
  /\ OutcomeFits(direct, o)
  /\ toolLog' = Append(toolLog, LogEntry(direct, o))
  /\ LET r == OnToolResult(direct, Bus, Mgr, toolCtx, o)
     IN IF r.kind = "threw"
        THEN DirectFail(r.err) /\ UNCHANGED <<busVars, subVars>>
        ELSE IF r.kind = "final"
        THEN /\ DirectComplete(r.fin)
             /\ SetBus(OnJobDeliver(Bus, direct.msg.job, r.fin.final))
             /\ UNCHANGED subVars
        ELSE /\ direct' = r.turn
             /\ SetBus(r.bus)
             /\ SetMgr(r.mgr)
             /\ dpc' = r.kind
             /\ UNCHANGED <<sessions, saves, view, done, directOut>>
  /\ UNCHANGED <<nextCall, running, pc, turn, toolCtx, nextTc, engineOut,
                 failures>>
  /\ UNCHANGED <<cronVars, dispatchVars>>

\* The answers of the LLM in SpecDeliver.
DeliverResponses ==
  FinalResponses \cup ToolResponses({"exec"}, 1)

\* Chats sending messages while the scheduler's callback runs jobs.
NextDeliver ==
  \/ \E m \in DeliverInbound : AdapterPublish(m)
  \/ \E job \in DeliverJobs : OnJobStart(job)
  \/ \E resp \in DeliverResponses : OnJobLLMReturn(resp)
  \/ DirectLLMThrow
  \/ \E o \in {[threw |-> FALSE, value |-> "tool output"],
               [threw |-> TRUE, value |-> "boom"]} : OnJobToolReturn(o)

SpecDeliver == Init /\ [][NextDeliver]_vars

(* ------------- ChannelManager.dispatchOutbound / stopAll -------------- *)

\* The consume call of the dispatcher: consumeOutboundTimeout(1000).
DispatchCall == 1

\* The names in ChannelManager.channels.
Registered(channel) ==
  \E i \in 1..Len(EnabledChannels) : EnabledChannels[i] = channel

\* startAll creates the AbortController and calls dispatchOutbound.
DispatchStart ==
  /\ dispatch.pc = "idle"
  /\ dispatch' = [pc |-> "loop", aborted |-> FALSE]
  /\ UNCHANGED <<busVars, nextCall, agentVars0, cronVars, sends>>

\* stopAll: the dispatcher's signal is aborted (dispatchAbort is set since
\* startAll, and null again after the first stopAll).
StopAll ==
  /\ dispatch.pc # "idle"
  /\ ~dispatch.aborted
  /\ dispatch' = [dispatch EXCEPT !.aborted = TRUE]
  /\ UNCHANGED <<busVars, nextCall, agentVars0, cronVars, sends>>

\* The while test of dispatchOutbound and the call of
\* consumeOutboundTimeout(1000).
DispatchLoopTest ==
  /\ dispatch.pc = "loop"
  /\ IF ~dispatch.aborted
     THEN /\ SetBus(GetWithTimeout(Bus, "outbound", DispatchCall))
          /\ dispatch' = [dispatch EXCEPT !.pc = "consume"]
     ELSE /\ dispatch' = [dispatch EXCEPT !.pc = "exited"]
          /\ UNCHANGED busVars
  /\ UNCHANGED <<nextCall, agentVars0, cronVars, sends>>

\* The timed consume of the dispatcher rejected: catch, continue.
DispatchTimedOut ==
  /\ dispatch.pc = "consume"
  /\ calls[DispatchCall].status = "rejected"
  /\ calls' = [calls EXCEPT ![DispatchCall] = NoCall]
  /\ dispatch' = [dispatch EXCEPT !.pc = "loop"]
  /\ UNCHANGED <<queue, waiters, delivered, published, nextCall, agentVars0,
                 cronVars, sends>>

\* The timed consume of the dispatcher resolved with msg: channel.send(msg)
\* is called for a registered channel, and a warning is logged otherwise.
DispatchTake ==
  /\ dispatch.pc = "consume"
  /\ calls[DispatchCall].status = "resolved"
  /\ LET msg == calls[DispatchCall].got[1]
     IN IF Registered(msg.channel)
        THEN /\ sends' = Append(sends, [msg |-> msg, kind |-> "send"])
             /\ dispatch' = [dispatch EXCEPT !.pc = "send"]
        ELSE /\ sends' = Append(sends, [msg |-> msg, kind |-> "unknown"])
             /\ dispatch' = [dispatch EXCEPT !.pc = "loop"]
  /\ calls' = [calls EXCEPT ![DispatchCall] = NoCall]
  /\ UNCHANGED <<queue, waiters, delivered, published, nextCall, agentVars0,
                 cronVars>>

\* A dispatcher without the try/catch around channel.send: a send that
\* throws ends dispatchOutbound.
SendSettlesUncaught(threw) ==
  /\ dispatch.pc = "send"
  /\ sends' = [sends EXCEPT ![Len(sends)].kind =
                 IF threw THEN "threw" ELSE "sent"]
  /\ dispatch' = [dispatch EXCEPT !.pc = IF threw THEN "exited" ELSE "loop"]
  /\ UNCHANGED <<busVars, nextCall, agentVars0, cronVars>>

\* channel.send returns, or throws and the error is logged.
SendSettles(threw) ==
  /\ dispatch.pc = "send"
  /\ sends' = [sends EXCEPT ![Len(sends)].kind =
                 IF threw THEN "threw" ELSE "sent"]
  /\ dispatch' = [dispatch EXCEPT !.pc = "loop"]
  /\ UNCHANGED <<busVars, nextCall, agentVars0, cronVars>>

\* The outbound messages of SpecDispatch: for the registered channel and
\* for a channel that is not registered, the n-th published having content
\* "m<n>".
DispatchOutbound ==
  {OutboundMessage(c, <<"42">>, "m" \o ToString(n)) :
     c \in {"telegram", "discord"}, n \in 1..MaxMsgs}

\* bus.publishOutbound(m) by the agent, a tool or the scheduler's callback.
PublishOutbound(m) ==
  /\ Len(published["outbound"]) < MaxMsgs
  /\ m.content = "m" \o ToString(Len(published["outbound"]) + 1)
  /\ SetBus(Put(Bus, "outbound", m))
  /\ UNCHANGED <<nextCall, agentVars>>

\* A continuation of the dispatcher that is ready runs, the timer of its
\* consume fires, and the send it awaits settles.
DispatchStep ==
  \/ DispatchLoopTest
  \/ DispatchTimedOut
  \/ DispatchTake
  \/ TimerFire(DispatchCall)
  \/ \E threw \in BOOLEAN : SendSettles(threw)

NextDispatch ==
  \/ DispatchStart
  \/ StopAll
  \/ \E m \in DispatchOutbound : PublishOutbound(m)
  \/ DispatchStep

SpecDispatch == Init /\ [][NextDispatch]_vars /\ WF_vars(DispatchStep)

(* ------------------------------ claims -------------------------------- *)

Count(s, m) == Cardinality({i \in 1..Len(s) : s[i] = m})

Holders(q, m) ==
  {c \in CallIds : calls[c].status = "resolved" /\ calls[c].q = q
                   /\ calls[c].got = <<m>>}

IsPrefix(s, t) == Len(s) <= Len(t) /\ \A i \in 1..Len(s) : s[i] = t[i]

ItemsOf(q) == [i \in 1..Len(delivered[q]) |-> delivered[q][i].item]

\* C1: no published message is ever lost. Every message published on a
\* queue is either buffered in that queue exactly once or held by exactly one
\* consume call that resolved (never both, never neither), and no call whose
\* promise has settled is still registered as a waiter, so a message
\* published after a timed consume expired cannot be handed to it.
C1_NoMessageLost ==
  \A q \in QNames :
    /\ \A i \in 1..Len(published[q]) :
         Count(queue[q], published[q][i])
           + Cardinality(Holders(q, published[q][i])) = 1
    /\ \A i \in 1..Len(waiters[q]) : calls[waiters[q][i]].status = "pending"

\* A timed consume expired, a message was published after that, and a later
\* consume that found it buffered returned it.
C1_Witness ==
  \E c1, c2 \in CallIds :
    /\ c1 < c2
    /\ calls[c1].timed /\ calls[c1].status = "rejected"
    /\ calls[c2].status = "resolved" /\ ~calls[c2].waited
    /\ calls[c2].q = calls[c1].q
    /\ \E i \in 1..Len(published[calls[c1].q]) :
         /\ i > calls[c1].pubAtEnd
         /\ calls[c2].got = <<published[calls[c1].q][i]>>

\* C2: each queue is FIFO. The items handed to consumers, in the order they
\* were handed out, are a prefix of the items in publication order, and of
\* two consume calls on one queue the one issued first holds the message
\* published first.
C2_Fifo ==
  /\ \A q \in QNames : IsPrefix(ItemsOf(q), published[q])
  /\ \A c1, c2 \in CallIds :
       (/\ c1 < c2
        /\ calls[c1].status = "resolved" /\ calls[c2].status = "resolved"
        /\ calls[c1].q = calls[c2].q)
       => calls[c1].got[1].id < calls[c2].got[1].id

\* Two consumers were suspended on an empty queue with a timed consumer
\* registered between them; it expired and both then received a message.
C2_Witness ==
  \E c1, c2, c3 \in CallIds :
    /\ c1 < c2 /\ c2 < c3
    /\ calls[c1].q = calls[c2].q /\ calls[c2].q = calls[c3].q
    /\ calls[c1].waited /\ calls[c1].status = "resolved"
    /\ calls[c2].waited /\ calls[c2].status = "rejected"
    /\ calls[c3].waited /\ calls[c3].status = "resolved"
    /\ calls[c3].pubAtEnd > calls[c2].pubAtEnd

\* C3: a timeout is local. The step in which a timed consume's promise is
\* rejected removes that call's waiter from its queue and changes nothing
\* else: the buffered items of both queues, the other waiters and their
\* order, the waiters of the other queue and every other call.
C3_TimeoutLocal ==
  [][\A c \in CallIds :
       (calls[c].status = "pending" /\ calls'[c].status = "rejected")
       => /\ queue' = queue
          /\ published' = published
          /\ delivered' = delivered
          /\ Count(waiters[calls[c].q], c) = 1
          /\ \A q \in QNames :
               waiters'[q] = SelectSeq(waiters[q], LAMBDA w : w # c)
          /\ \A d \in CallIds \ {c} : calls'[d] = calls[d]]_vars

\* A timed consume has expired while an earlier consumer was still suspended
\* on the same queue and the other queue held a buffered item.
C3_Witness ==
  \E c, d \in CallIds :
    /\ d < c
    /\ calls[c].timed /\ calls[c].status = "rejected"
    /\ calls[d].status = "pending" /\ calls[d].q = calls[c].q
    /\ Count(waiters[calls[c].q], d) = 1
    /\ \E q \in QNames \ {calls[c].q} : queue[q] # <<>>

\* An assistant message that carries tool calls.
IsToolCallMsg(m) == m.role = "assistant" /\ "tool_calls" \in DOMAIN m

\* A text-only assistant message.
IsTextMsg(m) == m.role = "assistant" /\ "tool_calls" \notin DOMAIN m

\* The assistant tool-call message at index a of msgs is followed by the
\* results of its first n calls, in the order of the calls.
ResultsFollow(msgs, a, n) ==
  /\ a + n <= Len(msgs)
  /\ \A j \in 1..n :
       /\ msgs[a + j].role = "tool"
       /\ msgs[a + j].tool_call_id = msgs[a].tool_calls[j].id

LastToolCallIdx(msgs) ==
  LET S == {a \in 1..Len(msgs) : IsToolCallMsg(msgs[a])}
  IN IF S = {} THEN 0 ELSE CHOOSE a \in S : \A x \in S : x <= a

\* C4: the tool calls of one LLM response are executed one at a time in the
\* order the model returned them. While a tool call is executing, the calls
\* started so far are the first n calls of the response in order, the results
\* of the n - 1 calls before it (and nothing else) have been appended after
\* the assistant message; and while an LLM call is in flight every assistant
\* tool-call message of the turn is followed by the results of all its calls.
C4_ToolCallsSequential ==
  /\ pc = "tool" =>
       LET a == LastToolCallIdx(turn.messages)
           n == Len(turn.started)
       IN /\ a > 0
          /\ n >= 1 /\ n <= Len(turn.messages[a].tool_calls)
          /\ \A j \in 1..n : turn.started[j] = turn.messages[a].tool_calls[j].id
          /\ Len(turn.messages) = a + n - 1
          /\ ResultsFollow(turn.messages, a, n - 1)
          /\ Head(turn.pending).id = turn.started[n]
  /\ pc = "llm" =>
       \A a \in 1..Len(turn.messages) :
         IsToolCallMsg(turn.messages[a]) =>
           ResultsFollow(turn.messages, a, Len(turn.messages[a].tool_calls))

\* The second tool call of a two-call response is executing, the result of
\* the first being the last message appended.
C4_Witness ==
  /\ pc = "tool"
  /\ Len(turn.started) = 2
  /\ turn.messages[Len(turn.messages)].role = "tool"

RECURSIVE ShapeFrom(_, _, _)
ShapeFrom(h, p, expect) ==
  IF p > Len(h) THEN expect = "user"
  ELSE IF expect = "user" THEN h[p].role = "user" /\ ShapeFrom(h, p + 1, "reply")
  ELSE IF IsToolCallMsg(h[p])
  THEN LET k == Len(h[p].tool_calls)
       IN k >= 1 /\ ResultsFollow(h, p, k) /\ ShapeFrom(h, p + k + 1, "reply")
  ELSE IsTextMsg(h[p]) /\ ShapeFrom(h, p + 1, "user")

\* C5: after any sequence of completed turns every session history is a
\* sequence of turns, each being the user message, then for every
\* tool-calling response one assistant message with its k tool calls followed
\* by exactly k tool results with the ids of those calls in order, then the
\* final assistant text.
C5_HistoryShape ==
  \A key \in DOMAIN sessions : ShapeFrom(sessions[key], 1, "user")

\* The part of the session history a completed turn t appended.
TurnSlice(t) == SubSeq(sessions[t.key], t.from + 1, t.to)

\* C6: every completed turn appends exactly one text-only assistant message;
\* it is the last message the turn appended and its content is the final
\* text of the turn, which is the content of the answer published for it.
C6_OneFinalAssistant ==
  \A n \in 1..Len(done) :
    LET t == done[n]
        slice == TurnSlice(t)
    IN /\ Cardinality({j \in 1..Len(slice) : IsTextMsg(slice[j])}) = 1
       /\ IsTextMsg(slice[Len(slice)])
       /\ slice[Len(slice)].content = t.final
       /\ \E e \in 1..Len(engineOut) :
            /\ engineOut[e].for = t.id /\ engineOut[e].kind = "answer"
            /\ engineOut[e].msg.content = t.final

\* C7: a completed turn in which every LLM response contained tool calls has
\* the fallback string as its final answer, published as such, and the
\* fallback is the last assistant message the turn appended to the session
\* history, right after the tool results of the last iteration.
C7_CapFallback ==
  \A n \in 1..Len(done) :
    LET t == done[n]
        slice == TurnSlice(t)
    IN t.toolResponses = t.llmCalls =>
         /\ t.final = FallbackText /\ t.final # Null
         /\ t.llmCalls = maxIterations
         /\ Len(slice) >= 2
         /\ IsTextMsg(slice[Len(slice)])
         /\ slice[Len(slice)].content = FallbackText
         /\ slice[Len(slice) - 1].role = "tool"
         /\ \E e \in 1..Len(engineOut) :
              /\ engineOut[e].for = t.id /\ engineOut[e].kind = "answer"
              /\ engineOut[e].msg.content = FallbackText

\* A turn completed in which all maxIterations LLM responses had tool calls.
C7_Witness ==
  \E n \in 1..Len(done) :
    done[n].toolResponses = done[n].llmCalls /\ done[n].llmCalls = maxIterations

\* What is left of the for loop of a turn or subagent run with cap
\* iterations, in iteration i with pending tool calls still to return, when
\* no response has more than MaxTc tool calls: the number of LLM calls and
\* tool executions that can still return.
LoopRank(cap, i, pending) ==
  IF pending = <<>> THEN (cap - i) * (MaxTc + 1)
  ELSE (cap - i - 1) * (MaxTc + 1) + Len(pending)

ExpectedResult(e) ==
  IF e.name \notin AgentRegistry THEN "Error: Unknown tool '" \o e.name \o "'"
  ELSE IF e.threw THEN "Error executing " \o e.name \o ": " \o e.value
  ELSE e.value

\* In msgs the logged tool call e has exactly one tool-result, with the
\* expected content.
ResultRecorded(msgs, e) ==
  LET R == {j \in 1..Len(msgs) :
              /\ msgs[j].role = "tool"
              /\ "tool_call_id" \in DOMAIN msgs[j]
              /\ msgs[j].tool_call_id = e.id}
  IN /\ Cardinality(R) = 1
     /\ \A j \in R : msgs[j].content = ExpectedResult(e) /\ msgs[j].name = e.name

\* C9: a tool failure never aborts the turn. No turn fails at the return of
\* a tool; the result of every executed tool call of the turn in progress
\* and of every completed turn is recorded once, as "Error executing <name>:
\* <message>" when the tool threw and as the unknown-tool error string when
\* the name is not registered; after a tool call of the turn in progress the
\* loop is at the next tool call of the response or, after the last one, at
\* the next LLM call; and in a completed turn every tool-calling response is
\* followed by the results of all its calls.
C9_ToolFailureContained ==
  /\ \A n \in 1..Len(failures) : failures[n].at # "tool"
  /\ \A n \in 1..Len(toolLog) :
       LET e == toolLog[n]
       IN /\ (turn.active /\ turn.msg.id = e.for) =>
               /\ ResultRecorded(turn.messages, e)
               /\ pc \in {"tool", "llm"}
               /\ LET a == LastToolCallIdx(turn.messages)
                  IN pc = "llm" =>
                       Len(turn.messages) = a + Len(turn.messages[a].tool_calls)
          /\ \A d \in 1..Len(done) :
               done[d].id = e.for =>
                 /\ ResultRecorded(TurnSlice(done[d]), e)
                 /\ \A a \in 1..Len(TurnSlice(done[d])) :
                      IsToolCallMsg(TurnSlice(done[d])[a]) =>
                        ResultsFollow(TurnSlice(done[d]), a,
                                      Len(TurnSlice(done[d])[a].tool_calls))
  /\ pc = "tool" => C4_ToolCallsSequential

\* A tool threw, the next tool call of the same response (an unregistered
\* name) was executed after it, the next LLM call was issued, and the turn
\* completed.
C9_Witness ==
  \E n \in 1..Len(toolLog) : \E d \in 1..Len(done) :
    /\ n < Len(toolLog)
    /\ toolLog[n].threw
    /\ toolLog[n + 1].for = toolLog[n].for
    /\ toolLog[n + 1].name \notin AgentRegistry
    /\ done[d].id = toolLog[n].for
    /\ done[d].llmCalls = 2

\* The apologies among the outbound messages published so far.
Apologies ==
  {i \in 1..Len(published["outbound"]) :
     \E n \in 1..Len(failures) :
       published["outbound"][i].content =
         "Sorry, I encountered an error: " \o failures[n].err}

\* C10: when processing an inbound message throws, the run loop publishes
\* exactly one outbound message for it, the apology, addressed to the channel
\* and chat the message originated from; it stays running and is back in its
\* loop to process the next inbound message.
C10_ApologyToOrigin ==
  /\ \A n \in 1..Len(failures) :
       LET f == failures[n]
           o == Origin(f.msg)
           E == {e \in 1..Len(engineOut) : engineOut[e].for = f.msg.id}
       IN /\ Cardinality(E) = 1
          /\ \A e \in E :
               /\ engineOut[e].kind = "apology"
               /\ engineOut[e].msg.channel = o.channel
               /\ engineOut[e].msg.chatId = o.chatId
               /\ engineOut[e].msg.content =
                    "Sorry, I encountered an error: " \o f.err
               /\ \E i \in Apologies : published["outbound"][i] = engineOut[e].msg
  /\ Cardinality(Apologies) = Len(failures)
  /\ pc # "idle" => running
  /\ pc # "stopped"
  /\ (failures # <<>> /\ ~turn.active) => pc \in {"loop", "consume"}

\* The outbound messages the engine itself published for inbound message n.
EngineOutFor(n) == {e \in 1..Len(engineOut) : engineOut[e].for = n}

\* Inbound message n has been handed to a consume call.
Consumed(n) ==
  \E i \in 1..Len(delivered["inbound"]) : delivered["inbound"][i].item.id = n

\* Inbound message n is held by run or is the message of the turn in progress.
InProgress(n) ==
  \/ calls[0].status = "resolved" /\ calls[0].got[1].id = n
  \/ turn.active /\ turn.msg.id = n

\* The calls of the message tool that returned having published a message.
ToolPublished ==
  {k \in 1..Len(toolLog) :
     /\ toolLog[k].name = "message"
     /\ toolLog[k].value # "Error: No target channel/chat specified"}

\* The number of messages the message tool call in progress has published.
ToolPublishing ==
  IF /\ pc = "tool"
     /\ Head(turn.pending).name = "message"
     /\ turn.pre # "Error: No target channel/chat specified"
  THEN 1 ELSE 0

\* C11: while the run loop is running and LLM and tool calls return, every
\* inbound message published to the bus is eventually consumed and
\* answered; for each consumed inbound message the engine itself publishes
\* exactly one outbound message (none while its turn is in progress, one
\* once it has ended), the answer or the apology, and the outbound queue has
\* received these messages in addition to the ones tools published.
C11_EveryInboundAnswered ==
  /\ [](/\ \A n \in 1..Len(published["inbound"]) :
             IF Consumed(n) /\ ~InProgress(n)
             THEN Cardinality(EngineOutFor(n)) = 1
             ELSE EngineOutFor(n) = {}
        /\ \A e \in 1..Len(engineOut) :
             /\ engineOut[e].kind \in {"answer", "apology"}
             /\ \E i \in 1..Len(published["outbound"]) :
                  published["outbound"][i] = engineOut[e].msg
        /\ Len(published["outbound"])
             = Len(engineOut) + Cardinality(ToolPublished) + ToolPublishing)
  /\ \A n \in 1..MaxInbound :
       (Len(published["inbound"]) >= n /\ running)
         ~> (~running \/ EngineOutFor(n) # {})

\* Two inbound messages were answered, one with an apology and one with a
\* final answer, and a tool published a message of its own during a turn.
C11_Witness ==
  /\ \E e \in 1..Len(engineOut) : engineOut[e].kind = "apology"
  /\ \E e \in 1..Len(engineOut) : engineOut[e].kind = "answer"
  /\ ToolPublished # {}
  /\ running

\* The announcements of subagents on the inbound queue, ever published.
Announcements ==
  {k \in 1..Len(published["inbound"]) :
     /\ published["inbound"][k].channel = "system"
     /\ published["inbound"][k].senderId = "subagent"}

\* The tasks whose runSubagent has reached its end.
Ended == {t \in TaskIds : subs[t].status \in {"announced", "done"}}

\* C12: every spawn() results in exactly one announcement on the inbound
\* queue (channel "system", senderId "subagent"): a spawned task's run ends,
\* whether with a final answer, at the iteration cap or by a throw; the step
\* that ends the run of a task publishes one announcement and no other step
\* of a subagent publishes any, so that there are as many announcements as
\* ended tasks and an ended task stays ended.
C12_OneAnnouncementPerSpawn ==
  /\ [](Cardinality(Announcements) = Cardinality(Ended))
  /\ [][\A t \in TaskIds :
         /\ (t \in Ended => t \in Ended')
         /\ (t \notin Ended /\ t \in Ended'
               => /\ Len(published'["inbound"]) = Len(published["inbound"]) + 1
                  /\ Cardinality(Announcements') = Cardinality(Announcements) + 1
                  /\ \A u \in TaskIds \ {t} : subs'[u] = subs[u])]_vars
  /\ \A t \in TaskIds :
       (subs[t].status \in {"llm", "tool"}) ~> (t \in Ended)

\* A run that made all its LLM calls has ended and its announcement, with
\* the fallback result, is on the inbound queue.
C12_Witness ==
  /\ \E t \in Ended : subs[t].llmCalls = subMaxIterations
  /\ \E k \in Announcements :
       published["inbound"][k].content
         = "[Subagent 'job' completed successfully] Result: "
             \o SubFallbackText

\* The results a subagent's run may announce.
SubResults ==
  {"done", SubFallbackText, "Error: LLM unavailable",
   "Error: boom", "Error: tool output"}

\* The announcements with the status text st.
AnnouncedAs(st) ==
  {k \in Announcements :
     published["inbound"][k].content
       \in {"[Subagent 'job' " \o st \o "] Result: " \o r : r \in SubResults}}

\* Under SpecSubFail every tool execution of a subagent raises, and a run
\* that has ended has executed a tool exactly when an iteration with tool
\* calls is behind it.
ToolRaised(t) == subs[t].i > 0

\* C13: the status of a subagent's announcement reflects the outcome: under
\* SpecSubFail, where no LLM call fails and every tool raises, the runs that
\* ended without executing a tool are the ones announced "completed
\* successfully" and the runs in which a tool raised are the ones announced
\* "failed".
C13_StatusReflectsOutcome ==
  /\ Cardinality(AnnouncedAs("completed successfully"))
       = Cardinality({t \in Ended : ~ToolRaised(t)})
  /\ Cardinality(AnnouncedAs("failed"))
       = Cardinality({t \in Ended : ToolRaised(t)})

\* The acknowledgement spawn() returns for task t.
Ack(t) ==
  "Subagent [job] started (id: " \o ToString(t)
    \o "). I'll notify you when it completes."

\* C14: spawn() does not wait for the subagent.  The step that hands out a
\* task leaves the task at its first LLM call, not yet answered, with the
\* acknowledgement as the result of the spawn tool and nothing announced;
\* every executed spawn call has an acknowledgement as its result; and from
\* then on neither waits for the other: whatever the subagents do, the
\* turn's LLM call or tool call can return, and whatever the turn does, a
\* running subagent's LLM call or tool call can return.
C14_SpawnDoesNotWait ==
  /\ [][\A t \in TaskIds :
         (subs[t].status = "unused" /\ subs'[t].status # "unused")
           => /\ subs'[t].status = "llm"
              /\ subs'[t].llmCalls = 1
              /\ subs'[t].i = 0
              /\ dpc' = "tool"
              /\ direct'.pre = Ack(t)
              /\ published' = published]_vars
  /\ [](\A k \in 1..Len(toolLog) :
          toolLog[k].name = "spawn"
            => /\ ~toolLog[k].threw
               /\ \E t \in TaskIds : toolLog[k].value = Ack(t))
  /\ [](dpc = "llm"
          => ENABLED (\E resp \in SpawnResponses : DirectLLMReturn(resp)))
  /\ [](dpc = "tool"
          => ENABLED DirectToolReturn([threw |-> FALSE, value |-> "tool output"]))
  /\ [](\A t \in TaskIds :
          subs[t].status \in {"llm", "tool"} => ENABLED SubStep(t))

\* The turn that spawned a subagent has finished with its reply while the
\* first LLM call of the subagent has not returned yet.
C14_Witness ==
  /\ \E t \in TaskIds : subs[t].status = "llm" /\ subs[t].llmCalls = 1
  /\ \E k \in 1..Len(toolLog) :
       /\ toolLog[k].name = "spawn"
       /\ \E d \in 1..Len(directOut) :
            directOut[d].id = toolLog[k].for /\ ~directOut[d].threw

\* C15: a subagent run is isolated.  Its registry has neither the message
\* tool nor the spawn tool, so a call of either returns "Error: Unknown
\* tool"; a step of a running subagent leaves the outbound queue and every
\* other task as they are (no task is handed out), and puts nothing on the
\* inbound queue but, when it ends the run, one announcement.  Under
\* SpecIsolated, where no turn publishes, the outbound queue stays empty.
C15_SubagentIsolated ==
  /\ [](/\ SubRegistry \cap {"message", "spawn"} = {}
        /\ \A name \in {"message", "spawn"} : \A o \in ToolOutcomes :
             Execute(SubRegistry, name, o)
               = [threw |-> FALSE,
                  value |-> "Error: Unknown tool '" \o name \o "'"]
        /\ published["outbound"] = <<>>)
  /\ [][\A t \in TaskIds :
         (subs[t].status \in {"llm", "tool"} /\ subs'[t] # subs[t])
           => /\ published'["outbound"] = published["outbound"]
              /\ queue'["outbound"] = queue["outbound"]
              /\ \A u \in TaskIds \ {t} : subs'[u] = subs[u]
              /\ IF t \in Ended'
                 THEN /\ Len(published'["inbound"])
                          = Len(published["inbound"]) + 1
                      /\ Len(published'["inbound"]) \in Announcements'
                 ELSE published'["inbound"] = published["inbound"]]_vars

\* A subagent that was asked for the message tool or the spawn tool in at
\* least one iteration has ended: nothing is on the outbound queue and the
\* announcements are those of the ended runs.
C15_Witness ==
  \E t \in Ended :
    /\ subs[t].i >= 1
    /\ published["outbound"] = <<>>
    /\ Cardinality(Announcements) = Cardinality(Ended)

\* The jobs of the store.
StoreJobs == InStore(Cron)

\* C16: in every reachable state of the scheduler, a job's nextRunAtMs is
\* null if and only if the job is disabled, is a one-shot job that has
\* fired, or its schedule computes no next time: a disabled job (a fired
\* one-shot job that was kept is disabled) has no next run; an enabled job
\* without a next run has a schedule that computes none; a schedule that
\* never computes a next time gives none; and the next run of an enabled
\* one-shot job is its atMs.
C16_NextRunNullIff ==
  \A j \in StoreJobs :
    /\ ~jobs[j].enabled => jobs[j].nextRunAtMs = NullMs
    /\ (jobs[j].enabled /\ jobs[j].nextRunAtMs = NullMs)
         => ComputeNextRun(jobs[j].schedule, now) = NullMs
    /\ (\A t \in 0..MaxTime : ComputeNextRun(jobs[j].schedule, t) = NullMs)
         => jobs[j].nextRunAtMs = NullMs
    /\ (jobs[j].schedule.kind = "at" /\ jobs[j].nextRunAtMs # NullMs)
         => jobs[j].nextRunAtMs = jobs[j].schedule.atMs

\* The enabled jobs of the store that have a next run.
Scheduled ==
  {j \in StoreJobs : jobs[j].enabled /\ Truthy(jobs[j].nextRunAtMs)}

\* The one pending timer is the one the scheduler holds, set to fire at the
\* minimum nextRunAtMs over the enabled jobs or, when that time has passed,
\* at once (at time t); there is no pending timer when no enabled job has a
\* next run.
TimerSetAt(t) ==
  IF Scheduled = {}
  THEN timers = {}
  ELSE LET w == MinOf({jobs[j].nextRunAtMs : j \in Scheduled})
       IN timers = {[h |-> timerHandle, at |-> IF w > t THEN w ELSE t]}

\* C17: the scheduler holds at most one live timer at any time, the one
\* timerHandle refers to; while it is running and no tick is in progress, a
\* timer is live exactly when some enabled job has a next run, and it is
\* not set to fire before the minimum nextRunAtMs unless that time had
\* passed; and every call of start or addJob, every removeJob or enableJob
\* of a job in the store and every end of a tick that leaves the scheduler
\* running leaves the timer set to fire at the minimum nextRunAtMs over the
\* enabled jobs.  (removeJob and enableJob of an unknown id and listJobs
\* change no job and do not touch the timer.)
C17_OneTimerAtMinimum ==
  /\ [](/\ Cardinality(timers) <= 1
        /\ \A x \in timers : x.h = timerHandle
        /\ (cronRunning /\ \A k \in TickIds : ticks[k] = NoTick)
             => /\ timers = {} <=> Scheduled = {}
                /\ \A x \in timers :
                     LET w == MinOf({jobs[j].nextRunAtMs : j \in Scheduled})
                     IN x.at >= w /\ (x.at = w \/ x.at <= now))
  /\ [][(/\ cronRunning'
          /\ \/ CronStart
             \/ \E p \in AddParams : CronAddJob(p.schedule, p.deleteAfterRun)
             \/ \E j \in StoreJobs : CronRemoveJob(j)
             \/ \E j \in StoreJobs : \E e \in BOOLEAN : CronEnableJob(j, e)
             \/ \E k \in TickIds : ticks[k] # NoTick /\ ticks'[k] = NoTick)
         => TimerSetAt(now)']_vars

\* The scheduler is running with two enabled jobs that have different next
\* runs, and the timer is set to the earlier one.
C17_Witness ==
  /\ cronRunning
  /\ \E i, j \in Scheduled : jobs[i].nextRunAtMs < jobs[j].nextRunAtMs
  /\ TimerSetAt(now)
  /\ timers # {}

\* The onTimer calls in progress; each is awaiting the callback of the
\* first job of its dueJobs that is left.
InFlight == {k \in TickIds : ticks[k] # NoTick}

\* C18: job callbacks run strictly one after another: at no time are two
\* job callbacks in flight, and a job whose callback has not returned is
\* not started a second time, also when addJob, removeJob or enableJob
\* re-arm the timer while a tick is awaiting a callback.
C18_CallbacksSequential ==
  /\ Cardinality(InFlight) <= 1
  /\ \A k, l \in InFlight :
       Head(ticks[k].due) = Head(ticks[l].due) => k = l

\* C19: a failing job never disturbs the rest of the tick.  When the
\* callback an onTimer call awaits throws, the error is recorded on the job
\* (lastStatus "error", lastError the message, lastRunAtMs the start of its
\* execution) as long as the job object exists; and whether the callback
\* threw or returned, onTimer goes on: it starts the next job it had
\* collected as due, or after the last one it ends, with the timer re-armed
\* if the scheduler is running.
C19_FailureContained ==
  [][\A k \in TickIds : \A o \in JobOutcomes :
       CallbackReturn(k, o)
         => LET j == Head(ticks[k].due)
                rest == Tail(ticks[k].due)
            IN /\ (o.threw /\ jobs'[j] # NoJob)
                    => /\ jobs'[j].lastStatus = "error"
                       /\ jobs'[j].lastError = o.value
                       /\ jobs'[j].lastRunAtMs = ticks[k].startMs
               /\ rest # <<>>
                    => ticks'[k] = [due |-> rest, startMs |-> now]
               /\ rest = <<>>
                    => /\ ticks'[k] = NoTick
                       /\ cronRunning => TimerSetAt(now)']_vars

\* The callback of the first of two due jobs of a tick threw: the error is
\* recorded on that job and the tick is awaiting the callback of the second.
C19_Witness ==
  \E k \in InFlight :
    /\ Len(ticks[k].due) = 1
    /\ Len(store) = 2
    /\ store[2] = Head(ticks[k].due)
    /\ jobs[store[1]].lastStatus = "error"
    /\ jobs[store[1]].lastError = "boom"
    /\ jobs[store[1]].lastRunAtMs = ticks[k].startMs
    /\ jobs[store[2]].lastStatus = Null

\* C20: after a due job has been executed, whatever the callback's outcome:
\* a one-shot job with deleteAfterRun is not in the store; a one-shot job
\* without it that was in the store is still there, disabled, with
\* nextRunAtMs null; an every or cron job that was in the store is still
\* there, enabled as before, with nextRunAtMs computed from its schedule at
\* the time of completion, which for an every job is a later time.
C20_AfterExecution ==
  [][\A k \in TickIds : \A o \in JobOutcomes :
       CallbackReturn(k, o)
         => LET j == Head(ticks[k].due)
                job == jobs[j]
            IN IF job.schedule.kind = "at"
               THEN IF job.deleteAfterRun
                    THEN j \notin StoreJobs'
                    ELSE j \in StoreJobs
                           => /\ j \in StoreJobs'
                              /\ ~jobs'[j].enabled
                              /\ jobs'[j].nextRunAtMs = NullMs
               ELSE j \in StoreJobs
                      => /\ j \in StoreJobs'
                         /\ jobs'[j].enabled = job.enabled
                         /\ jobs'[j].nextRunAtMs
                              = ComputeNextRun(job.schedule, now)
                         /\ job.schedule.kind = "every"
                              => jobs'[j].nextRunAtMs > now]_vars

\* A one-shot job without deleteAfterRun and an every job have been
\* executed: the first is disabled without a next run, the second is
\* enabled with a next run after the time it completed at.
C20_Witness ==
  \E i, j \in StoreJobs :
    /\ jobs[i].schedule.kind = "at"
    /\ jobs[i].lastStatus # Null
    /\ ~jobs[i].enabled
    /\ jobs[i].nextRunAtMs = NullMs
    /\ jobs[j].schedule.kind = "every"
    /\ jobs[j].lastStatus # Null
    /\ jobs[j].enabled
    /\ jobs[j].nextRunAtMs > now
    /\ InFlight = {}

\* The schedules computeNextRun can be given: every combination of a kind
\* with a time, an interval and an expression that is absent, zero (empty)
\* or present.
AnySchedules ==
  [kind : {"at", "every", "cron"}, atMs : {NullMs, 0, 1, 2},
   everyMs : {NullMs, 0, 1, 2}, expr : {Null, "", OddTimes, "bad"}]

\* The first time after t the expression of odd times matches.
NextMatch(t) == MinOf({u \in (t + 1)..(t + 2) : u % 2 = 1})

\* The next run of a schedule at time t as the rule states it.
NextRunRule(schedule, t) ==
  IF schedule.kind = "at"
  THEN IF schedule.atMs > t THEN schedule.atMs ELSE NullMs
  ELSE IF schedule.kind = "every"
  THEN IF schedule.everyMs > 0 THEN t + schedule.everyMs ELSE NullMs
  ELSE IF schedule.expr = OddTimes THEN NextMatch(t) ELSE NullMs

\* C21: the next-run computation at time now gives, for an at schedule,
\* atMs if atMs > now and null otherwise; for an every schedule, now +
\* everyMs if everyMs > 0 and null otherwise; for a cron schedule, the next
\* matching time, or null when the expression does not parse.  addJob puts
\* the new job in the store with this value computed at the time of the
\* call.
C21_NextRunComputation ==
  /\ [](\A s \in AnySchedules : \A t \in 0..(MaxTime + 1) :
          ComputeNextRun(s, t) = NextRunRule(s, t))
  /\ [][\A p \in AddParams :
          CronAddJob(p.schedule, p.deleteAfterRun)
            => LET id == cronOps + 1
               IN /\ id \in StoreJobs'
                  /\ jobs'[id].schedule = p.schedule
                  /\ jobs'[id].nextRunAtMs = NextRunRule(p.schedule, now)]_vars

\* Two calls of addJob at time 1, and nothing else, have been made: the
\* every job of interval 1 has the next run 2 and the one-shot job for time
\* 1 has none.
C21_Witness ==
  /\ cronOps = 2
  /\ Len(store) = 2
  /\ now = 1
  /\ \E i, j \in StoreJobs :
       /\ jobs[i].schedule.kind = "every"
       /\ jobs[i].schedule.everyMs = 1
       /\ jobs[i].nextRunAtMs = 2
       /\ jobs[j].schedule.kind = "at"
       /\ jobs[j].schedule.atMs = 1
       /\ jobs[j].enabled
       /\ jobs[j].nextRunAtMs = NullMs

\* s is what is left of r after some of its first elements were taken.
IsSuffix(s, r) ==
  /\ Len(s) <= Len(r)
  /\ \A i \in 1..Len(s) : s[i] = r[Len(r) - Len(s) + i]

SortedByNextRun(r) ==
  \A i, j \in 1..Len(r) :
    i < j =>
      /\ jobs[r[i]].nextRunAtMs = NullMs => jobs[r[j]].nextRunAtMs = NullMs
      /\ (jobs[r[i]].nextRunAtMs # NullMs /\ jobs[r[j]].nextRunAtMs # NullMs)
           => jobs[r[i]].nextRunAtMs <= jobs[r[j]].nextRunAtMs

\* C23: listJobs(includeDisabled) returns the jobs sorted ascending by
\* nextRunAtMs, all jobs without a next run after all jobs with one; with
\* includeDisabled false it returns exactly the enabled jobs of the store,
\* with true every job of the store, each job once.
C23_ListJobsSorted ==
  [][\A d \in BOOLEAN :
       CronListJobs(d)
         => LET r == ListJobs(Cron, d).ret
            IN /\ SortedByNextRun(r)
               /\ {r[i] : i \in 1..Len(r)}
                    = {j \in StoreJobs : d \/ jobs[j].enabled}
               /\ \A i, j \in 1..Len(r) : r[i] = r[j] => i = j]_vars

\* listJobs(true) has been called with a job without a next run added
\* before a job with one: the job with a next run is now first.
C23_Witness ==
  /\ Len(store) = 2
  /\ store[1] > store[2]
  /\ jobs[store[1]].nextRunAtMs # NullMs
  /\ jobs[store[2]].nextRunAtMs = NullMs

\* C24: getHistory(max) returns a suffix of the stored history with at most
\* max messages; whenever it drops messages, what it returns is empty or
\* begins with a user message: it begins neither with a tool result nor
\* with any other message of the inside of a turn.
C24_TrimAtUserBoundary ==
  view # NoView =>
    LET h == sessions[view.key]
        r == view.ret
    IN /\ IsSuffix(r, h)
       /\ Len(r) <= view.max
       /\ Len(r) < Len(h) =>
            \/ r = <<>>
            \/ /\ r[1].role = "user"
               /\ r[1].role # "tool"
               /\ ~IsToolCallMsg(h[Len(h) - Len(r)])

\* getHistory was called with a max whose trim point lies on a tool result:
\* it returned a shorter, non-empty slice that begins with a user message.
C24_Witness ==
  /\ view # NoView
  /\ view.max > 0
  /\ view.max < Len(sessions[view.key])
  /\ sessions[view.key][Len(sessions[view.key]) - view.max + 1].role = "tool"
  /\ view.ret # <<>>
  /\ Len(view.ret) < view.max
  /\ view.ret[1].role = "user"

\* The chatId announceResult gives the announcement of a subagent spawned
\* for origin.
AnnouncedChatId(origin) == <<origin.channel>> \o origin.chatId

\* C25: the addressing of system messages round-trips.  For every origin
\* passed to spawn, also one whose chat id contains ':', the reply target
\* and the session key of the turn that processes the subagent's
\* announcement are that origin's channel and chat id and the key
\* "originChannel:originChatId".
C25_AddressRoundTrip ==
  \A t \in TaskIds :
    (/\ subs[t].status \in {"announced", "done"}
     /\ turn.active
     /\ turn.msg.channel = "system"
     /\ turn.msg.chatId = AnnouncedChatId(subs[t].origin))
      => /\ turn.channel = subs[t].origin.channel
         /\ turn.chatId = subs[t].origin.chatId
         /\ turn.key = SessionKey(subs[t].origin.channel,
                                  subs[t].origin.chatId)

\* C26: a turn that fails persists nothing.  When the LLM call of a turn
\* throws, a direct call rethrows the error to its caller, and for direct
\* and bus-driven turns alike the session histories are what they were and
\* save is not called; no step of a turn other than its completion changes
\* a stored history or calls save (the start of a turn may create an empty
\* session); and a completed turn calls save exactly once, when its whole
\* slice has been appended to the history.
C26_FailedTurnPersistsNothing ==
  /\ [](Len(saves) = Len(done))
  /\ [][/\ DirectLLMThrow
             => /\ directOut'[Len(directOut')].threw
                /\ directOut'[Len(directOut')].value = "LLM unavailable"
                /\ directOut'[Len(directOut')].id = direct.msg.id
                /\ sessions' = sessions
                /\ saves' = saves
        /\ LLMThrow => (sessions' = sessions /\ saves' = saves)
        /\ Len(done') = Len(done)
             => /\ saves' = saves
                /\ \A key \in DOMAIN sessions' :
                     sessions'[key] = IF key \in DOMAIN sessions
                                      THEN sessions[key] ELSE <<>>
        /\ Len(done') # Len(done)
             => LET t == done'[Len(done')]
                IN /\ Len(done') = Len(done) + 1
                   /\ t.to > t.from
                   /\ Len(sessions[t.key]) = t.from
                   /\ Len(sessions'[t.key]) = t.to
                   /\ saves' = Append(saves, [key |-> t.key, len |-> t.to])
                   /\ \A key \in DOMAIN sessions \ {t.key} :
                        sessions'[key] = sessions[key]]_vars

\* A bus-driven turn and the direct call have failed at an LLM call and
\* another bus-driven turn has completed: save was called once, for the
\* session of the completed turn, and the session of the direct call is
\* what it was.
C26_Witness ==
  /\ \E n \in 1..Len(failures) : failures[n].at = "llm"
  /\ \E n \in 1..Len(directOut) : directOut[n].threw
  /\ Len(done) = 1
  /\ Len(saves) = 1
  /\ saves[1].len = Len(sessions[saves[1].key])
  /\ DirectKey \in DOMAIN sessions
  /\ sessions[DirectKey] \in {<<>>, LongHistory(1)}

\* The index of the last user message of msgs.
LastUserIdx(msgs) ==
  CHOOSE p \in 1..Len(msgs) :
    /\ msgs[p].role = "user"
    /\ \A q \in (p + 1)..Len(msgs) : msgs[q].role # "user"

\* The step appends to the session of the turn tr, whose messages array is
\* msgs when runAgentLoop returns, exactly the new user message and
\* everything after it.
PersistsNewMessages(tr, msgs) ==
  LET p == LastUserIdx(msgs)
  IN /\ msgs[p] = [role |-> "user", content |-> tr.msg.content]
     /\ \A q \in (p + 1)..Len(msgs) : msgs[q].role \in {"assistant", "tool"}
     /\ sessions'[tr.key] = sessions[tr.key] \o SubSeq(msgs, p, Len(msgs))

\* C27: the slice a turn persists is exactly the turn's new messages: it
\* starts at the new user message and holds every assistant and tool
\* message generated in the turn, in order, after the history stored
\* before, nothing of that history duplicated and no new message omitted,
\* also when the stored history is longer than the limit of getHistory and
\* the context of the LLM is a trimmed suffix of it.
C27_SliceIsNewMessages ==
  [][/\ \A resp \in PersistResponses :
          (LLMReturn(resp) /\ Len(done') > Len(done))
            => PersistsNewMessages(
                 turn, OnLLMResponse(turn, Bus, Mgr, toolCtx, nextTc,
                                     resp).fin.messages)
     /\ \A o \in ToolOutcomes :
          (ToolReturn(o) /\ Len(done') > Len(done))
            => PersistsNewMessages(
                 turn, OnToolResult(turn, Bus, Mgr, toolCtx, o).fin.messages)
     /\ \A resp \in PersistResponses :
          (DirectLLMReturn(resp) /\ Len(done') > Len(done))
            => PersistsNewMessages(
                 direct, OnLLMResponse(direct, Bus, Mgr, toolCtx, nextTc,
                                       resp).fin.messages)]_vars

\* A turn with a tool call completed on a session that held more messages
\* than the limit of getHistory: the four messages it appended are the user
\* message, the tool call, its result and the final text.
C27_Witness ==
  \E n \in 1..Len(done) :
    LET t == done[n]
        h == sessions[t.key]
    IN /\ t.from > DefaultMaxMessages
       /\ t.to = t.from + 4
       /\ h[t.from + 1] = [role |-> "user", content |-> "hi"]
       /\ IsToolCallMsg(h[t.from + 2])
       /\ h[t.from + 3].role = "tool"
       /\ h[t.to] = [role |-> "assistant", content |-> "Hello"]

\* C28: a session's history is append-only.  Every step leaves every
\* session in the cache with its history as a prefix of the new one, so the
\* history at an earlier moment is a prefix of the history at any later
\* moment: no turn removes, rewrites or reorders a stored message; and no
\* stored message is a system-prompt message.
C28_HistoryAppendOnly ==
  /\ [](\A key \in DOMAIN sessions :
          \A i \in 1..Len(sessions[key]) : sessions[key][i].role # "system")
  /\ [][\A key \in DOMAIN sessions :
          /\ key \in DOMAIN sessions'
          /\ IsPrefix(sessions[key], sessions'[key])]_vars

\* Two turns have completed one after the other on a session that held
\* more messages than the limit of getHistory: the history is the one held
\* at first, then the slice of the first turn, then that of the second.
C28_Witness ==
  /\ Len(done) >= 2
  /\ done[1].key = SampleKey
  /\ done[2].key = SampleKey
  /\ done[1].from > DefaultMaxMessages
  /\ done[1].to = done[2].from
  /\ done[2].to = Len(sessions[SampleKey])
  /\ SubSeq(sessions[SampleKey], 1, done[1].from) = LongHistory(1)

\* C29: the set of running subagent tasks tracks liveness exactly.  A task
\* is in it from the return of spawn() on, while its loop runs and until
\* the callback that ends it has run, and no other task is in it; a task
\* enters the set only by spawn and leaves it only after its announcement
\* has been published; and when every spawned subagent has finished the
\* running count is 0.
C29_RunningTasksExact ==
  /\ [](/\ runningTasks
             = {t \in TaskIds : subs[t].status \in {"llm", "tool", "announced"}}
        /\ (\A t \in TaskIds : subs[t].status \in {"unused", "done"})
             => RunningCount(Mgr) = 0)
  /\ [][\A t \in TaskIds :
          /\ (t \in runningTasks /\ t \notin runningTasks')
               => /\ subs[t].status = "announced"
                  /\ Cardinality(Announcements) = Cardinality(Ended)
                  /\ subs'[t].status = "done"
          /\ (t \notin runningTasks /\ t \in runningTasks')
               => /\ subs[t].status = "unused"
                  /\ subs'[t].status = "llm"]_vars

\* A subagent that executed a tool has finished: its announcement is on
\* the inbound queue and the running count is 0 again.
C29_Witness ==
  /\ \E t \in TaskIds : subs[t].status = "done" /\ subs[t].i > 0
  /\ \A t \in TaskIds : subs[t].status \in {"unused", "done"}
  /\ Announcements # {}
  /\ RunningCount(Mgr) = 0

\* The inbound messages of the system channel published so far.
SystemInbound ==
  {k \in 1..Len(published["inbound"]) :
     published["inbound"][k].channel = "system"}

\* C30: every outbound message the engine publishes for a system-channel
\* inbound message, the narrated reply of a completed turn and the apology
\* of a failed one alike, is addressed to the origin channel and chat
\* encoded in the message's chatId, never to the channel "system".
C30_SystemRepliesToOrigin ==
  \A k \in SystemInbound : \A e \in EngineOutFor(published["inbound"][k].id) :
    LET m == published["inbound"][k]
    IN /\ engineOut[e].msg.channel # "system"
       /\ engineOut[e].msg.channel = Head(m.chatId)
       /\ engineOut[e].msg.chatId = Tail(m.chatId)

\* The outbound messages a step publishes for the message tool.
NewNotes ==
  {published'["outbound"][i] :
     i \in {k \in (Len(published["outbound"]) + 1)..Len(published'["outbound"]) :
              published'["outbound"][k].content = "note"}}

\* The subagents a step spawns.
NewTasks == {t \in TaskIds : subs[t].status = "unused" /\ subs'[t].status # "unused"}

\* What the tool call a step of the turn tr executes does is addressed to
\* the channel and chat of tr.
AddressedTo(tr) ==
  /\ \A m \in NewNotes : m.channel = tr.channel /\ m.chatId = tr.chatId
  /\ \A t \in NewTasks :
       subs'[t].origin = [channel |-> tr.channel, chatId |-> tr.chatId]

\* C31: the default target of a message-tool call and the origin of a
\* spawned subagent, to which its announcement is addressed, are the channel
\* and chat of the turn that executed the tool call, also when a direct
\* call runs interleaved with a bus-driven turn and sets the tools' context
\* between that turn's start and its tool call.
C31_ToolTargetsOwnTurn ==
  /\ [][/\ (turn.active /\ turn' # turn) => AddressedTo(turn)
        /\ (direct.active /\ direct' # direct) => AddressedTo(direct)]_vars
  /\ [][\A t \in TaskIds :
          (subs[t].status = "llm" /\ subs'[t].status = "announced")
            => LET m == published'["inbound"][Len(published'["inbound"])]
               IN /\ Len(published'["inbound"]) = Len(published["inbound"]) + 1
                  /\ m.channel = "system"
                  /\ m.chatId = AnnouncedChatId(subs[t].origin)]_vars

\* The inbound messages handed to the run loop, in the order of consumption.
RunConsumed ==
  SelectSeq(delivered["inbound"], LAMBDA d : d.call = 0)

\* The outbound messages that are not a message tool's.
EngineReplies ==
  SelectSeq(published["outbound"], LAMBDA m : m.content # "note")

\* C32: bus-driven turns never overlap.  The run loop is handed the next
\* inbound message only when the engine's outbound message (answer or
\* apology) for every message it consumed before has been published and no
\* turn is in progress; the engine's replies are on the outbound queue, one
\* per finished turn, in the order in which their inbound messages were
\* consumed, which is the order in which they were published.
C32_TurnsInOrder ==
  /\ [](/\ Cardinality({n \in 1..Len(published["inbound"]) : InProgress(n)}) <= 1
        /\ \A n \in 1..Len(published["inbound"]) : published["inbound"][n].id = n
        /\ Len(engineOut) <= Len(RunConsumed)
        /\ Len(RunConsumed) <= Len(engineOut) + 1
        /\ \A e \in 1..Len(engineOut) :
             /\ engineOut[e].for = RunConsumed[e].item.id
             /\ engineOut[e].for = e
        /\ EngineReplies = [e \in 1..Len(engineOut) |-> engineOut[e].msg])
  /\ [][(calls[0].status # "resolved" /\ calls'[0].status = "resolved")
          => /\ ~turn.active
             /\ Len(engineOut) = Len(RunConsumed)
             /\ Len(EngineReplies) = Len(RunConsumed)]_vars

\* Two inbound messages have been consumed and answered, the first with an
\* apology, and a message tool published between the two replies.
C32_Witness ==
  /\ Len(engineOut) = 2
  /\ engineOut[1].kind = "apology"
  /\ \E i, j, k \in 1..Len(published["outbound"]) :
       /\ i < j /\ j < k
       /\ published["outbound"][i] = engineOut[1].msg
       /\ published["outbound"][j].content = "note"
       /\ published["outbound"][k] = engineOut[2].msg
  /\ pc = "loop"

\* The completed turns of the session key, in the order of completion.
DoneOn(key) == SelectSeq(done, LAMBDA d : d.key = key)

\* The part of the session's history the completed turn d appended.
BlockOf(d) == SubSeq(sessions[d.key], d.from + 1, d.to)

\* The ids of the tool calls executed for the inbound message (or direct
\* call) n.
ToolCallsFor(n) == {toolLog[k].id : k \in {i \in 1..Len(toolLog) : toolLog[i].for = n}}

\* The block is the slice of the turn d and of no other turn: its user
\* message, then for each of the turn's tool calls the assistant message
\* asking for it and its result, then the turn's final text.
IsSliceOf(block, d) ==
  /\ Len(block) = 2 + 2 * Cardinality(ToolCallsFor(d.id))
  /\ block[1].role = "user"
  /\ \A i \in 2..Len(block) : block[i].role # "user"
  /\ IsTextMsg(block[Len(block)])
  /\ block[Len(block)].content = d.final
  /\ {block[i].tool_call_id : i \in {j \in 1..Len(block) : block[j].role = "tool"}}
       = ToolCallsFor(d.id)

\* C33: when turns on the same session key overlap, no completed turn's
\* messages are lost and the turns' messages are not interleaved: no step
\* removes or changes a message of a history, and the history of a session
\* is the sequence of the slices of the turns completed on it, each one
\* contiguous block, in the order in which the turns completed.
C33_OverlapKeepsBlocks ==
  /\ [](\A key \in DOMAIN sessions :
          LET ds == DoneOn(key)
          IN /\ ds = <<>> => sessions[key] = <<>>
             /\ ds # <<>> =>
                  /\ ds[1].from = 0
                  /\ ds[Len(ds)].to = Len(sessions[key])
                  /\ \A i \in 1..(Len(ds) - 1) : ds[i].to = ds[i + 1].from
             /\ \A i \in 1..Len(ds) :
                  ds[i].from < ds[i].to /\ IsSliceOf(BlockOf(ds[i]), ds[i]))
  /\ [][\A key \in DOMAIN sessions :
          key \in DOMAIN sessions' /\ IsPrefix(sessions[key], sessions'[key])]_vars

\* A bus-driven turn and a direct call on the same session key have both
\* completed, the one that completed second having started before the
\* first one's slice was appended, and both executed a tool call.
C33_Witness ==
  \E i, j \in 1..Len(done) :
    /\ i < j
    /\ done[i].key = done[j].key
    /\ (done[i].id < 0) # (done[j].id < 0)
    /\ done[j].seen < done[i].to
    /\ ToolCallsFor(done[i].id) # {}
    /\ ToolCallsFor(done[j].id) # {}

\* The callback of job j is in flight.
Executing(j) ==
  \E k \in TickIds : ticks[k].due # <<>> /\ Head(ticks[k].due) = j

\* Job j is owed an execution: the scheduler is running and the job is in
\* the store, enabled, with a next run the clock reaches, and its callback
\* is not in flight.
Owed(j) ==
  /\ cronRunning
  /\ j \in StoreJobs
  /\ jobs[j].enabled
  /\ Truthy(jobs[j].nextRunAtMs)
  /\ jobs[j].nextRunAtMs <= LiveTime
  /\ ~Executing(j)

\* C34: while the scheduler is running and job callbacks return or throw,
\* the end of every tick, also of one in which a callback threw, leaves a
\* timer pending whenever some enabled job has a next run; and no enabled
\* job with a next run waits for ever: again and again every such job is
\* being executed or has been executed and has its next run after the
\* clock's last time, so that an enabled every-job, which gets a next run
\* at the end of each execution, is executed again and again.
C34_JobsEventuallyRun ==
  /\ [][\A k \in TickIds : \A o \in JobOutcomes :
          (CallbackReturn(k, o) /\ ticks'[k] = NoTick /\ cronRunning')
            => (Scheduled' # {} => timers' # {})]_vars
  /\ []<>(\A j \in JobIds : ~Owed(j))

\* An every-job whose first execution failed is being executed a second
\* time.
C34_Witness ==
  \E j \in StoreJobs :
    /\ jobs[j].schedule.kind = "every"
    /\ jobs[j].lastStatus = "error"
    /\ jobs[j].lastRunAtMs # NullMs
    /\ jobs[j].lastRunAtMs < now
    /\ Executing(j)
    /\ cronRunning

\* C35: while the scheduler is stopped no timer is live.  stop() leaves no
\* pending timer and no handle, and no step taken while the scheduler is
\* stopped and stays stopped (addJob, removeJob, enableJob, listJobs, the
\* callback of a tick that was in progress returning) creates a timer: the
\* first timer after a stop is the one start() arms.
C35_NoTimerWhileStopped ==
  /\ [](~cronRunning => timers = {} /\ timerHandle = 0)
  /\ [][CronStop => timers' = {} /\ timerHandle' = 0]_vars
  /\ [][(~cronRunning /\ timers' # {}) => CronStart]_vars

\* The scheduler was stopped while a tick is awaiting a callback, and an
\* enabled job has a next run: no timer is pending.
C35_Witness ==
  /\ ~cronRunning
  /\ InFlight # {}
  /\ Scheduled # {}
  /\ timers = {}
  /\ cronOps = MaxOps

\* The onTimer calls that start a job callback in this step: a timer fires
\* and onTimer starts its first due job, or an awaited callback has settled
\* and onTimer starts the next job of its dueJobs.
StartsCallback ==
  {k \in TickIds : ticks'[k] # NoTick /\ ticks'[k] # ticks[k]}

\* C36: after stop() has returned, no job callback is started until the
\* scheduler is started again, also when stop() is called while a tick with
\* several due jobs is awaiting the callback of an earlier one: every step
\* that starts a job callback is taken while the scheduler is running.
C36_NoCallbackAfterStop ==
  [][StartsCallback # {} => cronRunning]_vars

\* The jobs removeJob has removed: under SpecCronLoaded, where no job is
\* added and no job is deleted after its run, the loaded jobs that are not
\* in the store.
Removed == {1, 2} \ StoreJobs

\* C37: once removeJob(id) has returned true, the callback of that job is
\* never started afterwards and the job never reappears in the store, also
\* when the removal happens while a tick that had collected the job as due
\* is still executing an earlier job.
C37_RemovedJobNeverRuns ==
  /\ [][\A k \in StartsCallback : Head(ticks'[k].due) \notin Removed]_vars
  /\ [][\A j \in Removed : j \notin StoreJobs']_vars

\* The outbound messages published in this step.
NewOutbound ==
  {published'["outbound"][i] :
     i \in (Len(published["outbound"]) + 1)..Len(published'["outbound"])}

\* The step in which cron.onJob, having got the response of processDirect,
\* runs its delivery and returns.
OnJobReturns ==
  /\ dpc # "idle"
  /\ direct.channel = "cron"
  /\ Len(directOut') = Len(directOut) + 1
  /\ ~directOut'[Len(directOut')].threw

\* C38: a job created with deliver = true for channel c and recipient t
\* delivers its response only to chat t on channel c: every outbound message
\* cron.onJob publishes when it delivers the response of the job is
\* addressed to payload.channel and payload.to.
C38_DeliversToRecipientOnly ==
  [][(OnJobReturns /\ direct.msg.job.payload.deliver)
       => \A m \in NewOutbound :
            /\ m.channel = direct.msg.job.payload.channel
            /\ m.chatId = direct.msg.job.payload.to]_vars

\* The message the dispatcher's consume has resolved with and the
\* dispatcher has not taken yet.
DispatchHeld ==
  IF calls[DispatchCall].status = "resolved"
  THEN calls[DispatchCall].got
  ELSE <<>>

\* The messages the dispatcher has taken, in the order it took them.
Taken == [i \in 1..Len(sends) |-> sends[i].msg]

\* C39: the outbound dispatcher neither loses nor duplicates messages.  The
\* messages published on the outbound queue are, in publication order, the
\* ones the dispatcher took, the one its consume holds and the ones still
\* buffered; each taken message of a registered channel was passed to that
\* channel's send once and each other one only logged.  A send that
\* throws, a message for an unknown channel and a consume timeout leave the
\* dispatcher in its loop: it exits only once its signal is aborted.  After
\* stopAll() the loop eventually exits, and while the dispatcher runs it
\* eventually takes every published message.
C39_DispatcherExactlyOnce ==
  /\ [](published["outbound"] = Taken \o DispatchHeld \o queue["outbound"])
  /\ [](\A i \in 1..Len(sends) :
          (sends[i].kind = "unknown") <=> ~Registered(sends[i].msg.channel))
  /\ [][dispatch.pc \in {"consume", "send"}
          => dispatch'.pc \in {"consume", "send", "loop"}]_vars
  /\ [][(dispatch.pc # "exited" /\ dispatch'.pc = "exited")
          => dispatch.aborted]_vars
  /\ [](dispatch.aborted => <>(dispatch.pc = "exited"))
  /\ []<>(\/ dispatch.pc = "idle"
          \/ dispatch.aborted
          \/ published["outbound"] = Taken)

\* The dispatcher took three messages (a send that threw, a message for an
\* unknown channel, a send that returned) and has exited after stopAll.
C39_Witness ==
  /\ Len(sends) = 3
  /\ sends[1].kind = "threw"
  /\ sends[2].kind = "unknown"
  /\ sends[3].kind = "sent"
  /\ dispatch.aborted
  /\ dispatch.pc = "exited"

\* C40: after stop() is called on the agent run loop, run() eventually
\* returns, also when no inbound message ever arrives: the timed consume
\* expires and the loop tests its running flag again.  A consume timeout by
\* itself does not end the loop (run goes back to the while test, and
\* returns from there only when stop() was called) and publishes nothing.
C40_StopEndsRun ==
  /\ []((~running /\ pc # "idle") => <>(pc = "stopped"))
  /\ [][ConsumeTimedOut
          => /\ pc' = "loop"
             /\ running' = running
             /\ published' = published
             /\ engineOut' = engineOut]_vars
  /\ [][(pc # "stopped" /\ pc' = "stopped") => ~running]_vars

\* stop() was called while run was waiting in its timed consume, no inbound
\* message has ever been published, and the consume has timed out.
C40_Witness ==
  /\ ~running
  /\ pc = "consume"
  /\ calls[0].status = "rejected"
  /\ published["inbound"] = <<>>
====
